---- MODULE Spec2Model ----
(***************************************************************************)
(* A model of ra-cli's agent core (src/ra/src/agent.rs): the step loop of  *)
(* Agent::run, the retry loop of Agent::send_request, the pure function    *)
(* prune_messages and the tool dispatch of one step.                       *)
(*                                                                         *)
(* Conventions.  An Option<T> is a sequence of length 0 (None) or 1        *)
(* (Some(x)).  Texts that the code only matches by substring are sequences *)
(* of words.  Logger::log_event is modelled as succeeding (the sinks are   *)
(* writable), so the `?` after a log call never returns.                   *)
(***************************************************************************)
EXTENDS Integers, Sequences, FiniteSets, TLC

None == <<>>
Some(x) == <<x>>
IsSome(o) == Len(o) = 1
Unwrap(o) == o[1]

Min(a, b) == IF a < b THEN a ELSE b

Range(s) == {s[i] : i \in 1..Len(s)}

(***************************************************************************)
(* Bounds of the model.                                                    *)
(***************************************************************************)
\* longest conversation handed to prune_messages in SpecPrune
MaxLen == 5
\* applications of prune_messages to one conversation in SpecPrune
MaxPrunes == 3
\* cap on the step counter of Agent::run (max_steps may be None)
MaxSteps == 2
\* calls of Logger::log_event in one run of SpecLog
MaxEvents == 3
\* longest source chain of an error in SpecChain
MaxChain == 3

(***************************************************************************)
(* Messages (the serde_json values Agent::run pushes to self.messages).    *)
(***************************************************************************)
Msg(role, content, tool_calls, tool_call_id) ==
    [role |-> role, content |-> content, tool_calls |-> tool_calls,
     tool_call_id |-> tool_call_id]

RoleOf(m) == m.role

\* extract_tool_call_ids: the ids of the tool_calls array, {} when absent
extract_tool_call_ids(msg) ==
    IF IsSome(msg.tool_calls)
    THEN {Unwrap(msg.tool_calls)[i].id : i \in 1..Len(Unwrap(msg.tool_calls))}
    ELSE {}

\* the first loop of prune_messages: the partition into system / non_system
SystemPart(messages_) == SelectSeq(messages_, LAMBDA m : RoleOf(m) = "system")
NonSystemPart(messages_) == SelectSeq(messages_, LAMBDA m : RoleOf(m) # "system")

\* a mutant of TaskIdx: the last user message, not the first
TaskIdxLast(non_system) ==
    IF \E i \in 1..Len(non_system) : RoleOf(non_system[i]) = "user"
    THEN CHOOSE i \in 1..Len(non_system) :
            /\ RoleOf(non_system[i]) = "user"
            /\ \A j \in (i + 1)..Len(non_system) : RoleOf(non_system[j]) # "user"
    ELSE 0

\* non_system.iter().position(role == "user"), 1-based, 0 for None
TaskIdx(non_system) ==
    IF \E i \in 1..Len(non_system) : RoleOf(non_system[i]) = "user"
    THEN CHOOSE i \in 1..Len(non_system) :
            /\ RoleOf(non_system[i]) = "user"
            /\ \A j \in 1..(i - 1) : RoleOf(non_system[j]) # "user"
    ELSE 0

\* a mutant of CutIdx: the cut stays at drop_target
CutIdxNoBoundary(rest) == Min(Len(rest) \div 3, Len(rest))

\* cut_idx of prune_messages (0-based, as in the code): drop_target, moved
\* forward to the first user message at or after it when there is one
CutIdx(rest) ==
    LET drop_target == Len(rest) \div 3
        cut0 == Min(drop_target, Len(rest))
        users == {i \in cut0..(Len(rest) - 1) : RoleOf(rest[i + 1]) = "user"}
    IN  IF users # {}
        THEN CHOOSE i \in users : \A j \in users : i <= j
        ELSE cut0

\* a mutant of Revalidate: a Tool message is kept when it names a call,
\* whether or not that call is one of the Assistant message before it
RevalidateAnyCall(preserved, i, active, valid) ==
    SelectSeq(preserved, LAMBDA m : RoleOf(m) # "tool" \/ IsSome(m.tool_call_id))

\* a mutant of Revalidate: every Tool message is dropped
RevalidateDropsTools(preserved, i, active, valid) ==
    SelectSeq(preserved, LAMBDA m : RoleOf(m) # "tool")

\* a mutant of Revalidate: keeps every preserved message
RevalidateKeepAll(preserved, i, active, valid) == preserved

\* the second loop of prune_messages (the walk over `preserved`)
RECURSIVE Revalidate(_, _, _, _)
Revalidate(preserved, i, active, valid) ==
    IF i > Len(preserved) THEN valid
    ELSE LET msg == preserved[i]
             role == RoleOf(msg)
         IN  CASE role = "assistant" ->
                    Revalidate(preserved, i + 1, extract_tool_call_ids(msg),
                               Append(valid, msg))
               [] role = "tool" ->
                    IF /\ IsSome(msg.tool_call_id)
                       /\ Unwrap(msg.tool_call_id) \in active
                    THEN Revalidate(preserved, i + 1, active, Append(valid, msg))
                    ELSE Revalidate(preserved, i + 1, active, valid)
               [] role = "user" ->
                    Revalidate(preserved, i + 1, {}, Append(valid, msg))
               [] OTHER ->
                    Revalidate(preserved, i + 1, active, Append(valid, msg))

\* a mutant of prune_messages: the anchor is put behind the messages kept
PruneAnchorLast(messages_) ==
    LET system == SystemPart(messages_)
        non_system == NonSystemPart(messages_)
        task_idx == TaskIdx(non_system)
    IN  IF task_idx = 0 THEN system \o non_system
        ELSE LET rest == SubSeq(non_system, task_idx + 1, Len(non_system))
                 preserved == SubSeq(rest, CutIdx(rest) + 1, Len(rest))
                                \o <<non_system[task_idx]>>
             IN  system \o Revalidate(preserved, 1, {}, <<>>)

\* a mutant of prune_messages: leaves the system messages where they stood
PruneKeepSystemInPlace(messages_) ==
    LET task_idx == TaskIdx(messages_)
    IN  IF task_idx = 0 THEN messages_
        ELSE LET rest == SubSeq(messages_, task_idx + 1, Len(messages_))
                 preserved == <<messages_[task_idx]>>
                                \o SubSeq(rest, CutIdx(rest) + 1, Len(rest))
             IN  SubSeq(messages_, 1, task_idx - 1)
                    \o Revalidate(preserved, 1, {}, <<>>)

\* a mutant of prune_messages: the anchor is the message before the cut,
\* not the first user message
PruneNoAnchor(messages_) ==
    LET system == SystemPart(messages_)
        non_system == NonSystemPart(messages_)
        cut == CutIdx(non_system)
    IN  system \o Revalidate(SubSeq(non_system, cut + 1, Len(non_system)),
                             1, {}, <<>>)

\* a mutant of prune_messages: `rest` starts at the anchor instead of after
\* it (skip(task_idx) for skip(task_idx + 1)), so the anchor can be kept twice
PruneAnchorTwice(messages_) ==
    LET system == SystemPart(messages_)
        non_system == NonSystemPart(messages_)
        task_idx == TaskIdx(non_system)
    IN  IF task_idx = 0 THEN system \o non_system
        ELSE LET rest == SubSeq(non_system, task_idx, Len(non_system))
                 preserved == <<non_system[task_idx]>>
                                \o SubSeq(rest, CutIdx(rest) + 1, Len(rest))
             IN  system \o Revalidate(preserved, 1, {}, <<>>)

\* prune_messages
prune_messages(messages_) ==
    LET system == SystemPart(messages_)
        non_system == NonSystemPart(messages_)
        task_idx == TaskIdx(non_system)
    IN  IF task_idx = 0 THEN system \o non_system
        ELSE LET task_msg == non_system[task_idx]
                 rest == SubSeq(non_system, task_idx + 1, Len(non_system))
                 cut_idx == CutIdx(rest)
                 preserved == <<task_msg>> \o SubSeq(rest, cut_idx + 1, Len(rest))
             IN  system \o Revalidate(preserved, 1, {}, <<>>)

(***************************************************************************)
(* State.                                                                  *)
(***************************************************************************)
VARIABLES
    \* Agent fields (agent.rs 21-39)
    messages, max_steps, time_limit, submit_enabled, retry_429, next_item_id,
    token_usage_total,
    \* start.elapsed() of run, the time since run was entered
    elapsed,
    \* the events Logger::log_event has written, in order
    events,
    \* Agent::run: position, locals and return value
    pc, steps, last_len, recovering, request, result,
    \* Agent::send_request: loop variable, local, return value; the answers
    \* of the HTTP attempts and the backoff sleeps of the current call
    attempt, last_http_err, resp, http, sleeps,
    \* the tool call execute_tool is running, the calls handed to
    \* execute_tool in this step, the length of the event log at the top of
    \* this step, the re-sends of this step's pruning sub-loop
    dispatched, invocations, evMark, resends,
    \* the argument of the latest prune_messages call and the number of calls;
    \* the length of the conversation when this step's first context-length
    \* failure arrived
    pin, prunes, first_len,
    \* run_cli: the --json and --stream-json arguments (cli.rs 75, 82)
    json, stream_json,
    \* LoggerInner (logger.rs 16-20): what each sink has been given, None for
    \* a sink that is not configured
    file_writer, stdout_writer, buffer,
    \* the lines on the standard output of the process
    stdout,
    \* OffsetDateTime::now_utc(), in milliseconds
    now,
    \* the calls of Logger::log_event so far: the event given and the time
    logged,
    \* the argument of error_chain_has_retryable_io_dyn (the errors of its
    \* source chain, outermost first) and the value returned
    err_chain, retryable

cfgVars == <<max_steps, time_limit, submit_enabled, retry_429>>
sendVars == <<attempt, last_http_err, resp, http, sleeps>>
toolVars == <<dispatched, invocations>>
vars == <<messages, max_steps, time_limit, submit_enabled, retry_429, next_item_id,
          token_usage_total, elapsed, events,
          pc, steps, last_len, recovering, request, result,
          attempt, last_http_err, resp, http, sleeps,
          dispatched, invocations, evMark, resends, pin, prunes, first_len,
          json, stream_json, file_writer, stdout_writer, buffer, stdout, now, logged,
          err_chain, retryable>>
logVars == <<json, stream_json, file_writer, stdout_writer, buffer, stdout, now, logged>>

chainVars == <<err_chain, retryable>>

\* error_chain_has_retryable_io_dyn is not being looked at
IdleChain == err_chain = <<>> /\ retryable = FALSE

\* no logger has been constructed
IdleLogger ==
    /\ json = FALSE /\ stream_json = FALSE
    /\ file_writer = None /\ stdout_writer = None /\ buffer = None
    /\ stdout = <<>> /\ now = 0 /\ logged = <<>>

(***************************************************************************)
(* SpecPrune: prune_messages applied again and again to any conversation.  *)
(***************************************************************************)
ToolCallOf(id, name, arguments) == [id |-> id, name |-> name, arguments |-> arguments]

\* arguments strings: whether serde_json parses them, and the "answer" key
Args(wf, answer) == [wf |-> wf, answer |-> answer]
GoodArgs == Args(TRUE, None)

\* the shapes of message a conversation is drawn from; position i tags the
\* content, so that two messages of one conversation are never equal
PruneShapes ==
    { Msg("system", None, None, None),
      Msg("user", None, None, None),
      Msg("assistant", None, None, None),
      Msg("assistant", None, Some(<<ToolCallOf("c1", "shell_command", GoodArgs)>>), None),
      Msg("assistant", None, Some(<<ToolCallOf("c1", "shell_command", GoodArgs),
                                    ToolCallOf("c2", "shell_command", GoodArgs)>>), None),
      Msg("tool", None, None, Some("c1")),
      Msg("tool", None, None, Some("c2")),
      Msg("tool", None, None, None),
      Msg("developer", None, None, None) }

Tagged(shapes) == [i \in 1..Len(shapes) |-> [shapes[i] EXCEPT !.content = Some(ToString(i))]]

IdleRun ==
    /\ max_steps = None /\ submit_enabled = FALSE /\ retry_429 = FALSE
    /\ time_limit = None /\ elapsed = 0
    /\ next_item_id = 0 /\ events = <<>>
    /\ token_usage_total = [input_tokens |-> 0, cached_input_tokens |-> 0, output_tokens |-> 0]
    /\ steps = 0 /\ last_len = 0 /\ recovering = FALSE
    /\ request = <<>> /\ result = None
    /\ attempt = 0 /\ last_http_err = None /\ resp = None /\ http = <<>> /\ sleeps = <<>>
    /\ dispatched = None /\ invocations = <<>> /\ evMark = 0 /\ resends = 0
    /\ first_len = 0

InitPrune ==
    /\ \E n \in 0..MaxLen : \E c \in [1..n -> PruneShapes] : messages = Tagged(c)
    /\ pin = messages
    /\ prunes = 0
    /\ pc = "prune_messages"
    /\ IdleRun
    /\ IdleLogger /\ IdleChain

PruneApply ==
    /\ pc = "prune_messages"
    /\ prunes < MaxPrunes
    /\ pin' = messages
    /\ messages' = prune_messages(messages)
    /\ prunes' = prunes + 1
    /\ UNCHANGED <<chainVars, logVars, cfgVars, elapsed, sendVars, toolVars, next_item_id, token_usage_total,
                   events, pc, steps, last_len, recovering, request, result,
                   evMark, resends, first_len>>

NextPrune == PruneApply

SpecPrune == InitPrune /\ [][NextPrune]_vars

(***************************************************************************)
(* Texts and errors.  A text is the set of its words; an error is what     *)
(* Agent::run sees of an anyhow::Error: its kind and the words of its      *)
(* to_string(), which is the outermost context message only.               *)
(***************************************************************************)
Lower(w) ==
    CASE w = "Context" -> "context"
      [] w = "LENGTH" -> "length"
      [] OTHER -> w

to_lowercase(words) == {Lower(w) : w \in words}

\* a mutant of is_context_error: a message about a limit counts too
IsContextErrorOnLimit(words) ==
    LET msg == to_lowercase(words)
    IN  "limit" \in msg \/ ("context" \in msg /\ "length" \in msg)

\* a mutant of is_context_error: every error counts as a context-length failure
IsContextErrorAlways(words) == TRUE

\* is_context_error, on the words of the message
is_context_error(words) ==
    LET msg == to_lowercase(words)
    IN  "context" \in msg /\ "length" \in msg

Err(kind, status, attempt_, words) ==
    [kind |-> kind, status |-> status, attempt |-> attempt_, words |-> words]

\* the hint line of format_openrouter_http_error
HintWords(status) ==
    CASE status \in {401, 403} -> {"Hint:", "check", "your", "API", "key"}
      [] status = 404 -> {"Hint:", "check", "--base-url", "and", "the", "model", "name"}
      [] status \in {408, 504} -> {"Hint:", "the", "request", "timed", "out"}
      [] status = 429 -> {"Hint:", "you", "may", "be", "rate", "limited"}
      [] status \in {500, 502, 503} -> {"Hint:", "upstream/server", "error"}
      [] OTHER -> {}

\* format_openrouter_http_error: status line, the provider's message and
\* the body snippet (both are words of the body), the hint
format_openrouter_http_error(status, body) ==
    {"OpenRouter", "API", "error", "(HTTP", "when", "calling"}
        \cup body.words \cup HintWords(status)

(***************************************************************************)
(* One HTTP attempt's answer, as reqwest reports it.                       *)
(***************************************************************************)
\* a reqwest::Error: its is_timeout/is_connect/is_body/is_decode flags and
\* the errors of its source chain, outermost first ("NotIo" for an error
\* that is no std::io::Error, an io::ErrorKind otherwise)
ReqwestErr(timeout, connect, body, decode, chain) ==
    [timeout |-> timeout, connect |-> connect, body |-> body, decode |-> decode,
     chain |-> chain]

RetryableIoKinds == {"UnexpectedEof", "ConnectionReset", "ConnectionAborted", "BrokenPipe"}

\* a mutant of error_chain_has_retryable_io_dyn: only the error itself is
\* looked at, not its sources
ErrorChainHeadOnly(chain) == chain # <<>> /\ Head(chain) \in RetryableIoKinds

\* error_chain_has_retryable_io_dyn
RECURSIVE error_chain_has_retryable_io_dyn(_)
error_chain_has_retryable_io_dyn(chain) ==
    IF chain = <<>> THEN FALSE
    ELSE IF Head(chain) \in RetryableIoKinds THEN TRUE
    ELSE error_chain_has_retryable_io_dyn(Tail(chain))

\* should_retry_reqwest_error
should_retry_reqwest_error(err) ==
    \/ err.timeout \/ err.connect \/ err.body \/ err.decode
    \/ error_chain_has_retryable_io_dyn(err.chain)

\* a mutant of should_retry_status: 408 Request Timeout is retried too
ShouldRetryStatusWith408(status) == status \in {408, 429, 500, 502, 503, 504}

\* should_retry_status
should_retry_status(status) == status \in {429, 500, 502, 503, 504}

\* StatusCode::is_success
is_success(status) == status >= 200 /\ status <= 299

\* Header values are sequences of characters.
Digits == {"0", "1", "2", "3", "4", "5", "6", "7", "8", "9"}
DigitVal(c) ==
    CASE c = "0" -> 0 [] c = "1" -> 1 [] c = "2" -> 2 [] c = "3" -> 3 [] c = "4" -> 4
      [] c = "5" -> 5 [] c = "6" -> 6 [] c = "7" -> 7 [] c = "8" -> 8 [] c = "9" -> 9

\* str::trim
RECURSIVE TrimStart(_)
TrimStart(s) == IF s # <<>> /\ Head(s) = " " THEN TrimStart(Tail(s)) ELSE s
RECURSIVE TrimEnd(_)
TrimEnd(s) ==
    IF s # <<>> /\ s[Len(s)] = " " THEN TrimEnd(SubSeq(s, 1, Len(s) - 1)) ELSE s
Trim(s) == TrimEnd(TrimStart(s))

RECURSIVE DecimalValue(_, _)
DecimalValue(s, acc) ==
    IF s = <<>> THEN acc ELSE DecimalValue(Tail(s), 10 * acc + DigitVal(Head(s)))

\* str::parse::<u64>: an optional "+", then one or more digits
ParseU64(s) ==
    LET digits == IF s # <<>> /\ Head(s) = "+" THEN Tail(s) ELSE s
    IN  IF digits # <<>> /\ \A i \in 1..Len(digits) : digits[i] \in Digits
        THEN Some(DecimalValue(digits, 0))
        ELSE None

\* HeaderValue::to_str fails on a byte that is not visible ASCII
to_str(v) == IF \E i \in 1..Len(v) : v[i] = "\\x80" THEN None ELSE Some(v)

\* parse_retry_after_secs
parse_retry_after_secs(v) ==
    IF IsSome(to_str(v)) THEN ParseU64(Trim(Unwrap(to_str(v)))) ELSE None

\* headers.get(RETRY_AFTER).and_then(parse_retry_after_secs)
RetryAfterOf(header) ==
    IF IsSome(header) THEN parse_retry_after_secs(Unwrap(header)) ELSE None

\* 1u64 << n
RECURSIVE Pow2(_)
Pow2(n) == IF n = 0 THEN 1 ELSE 2 * Pow2(n - 1)

\* a mutant of sleep_backoff: the base delay is not doubled
SleepBackoffNoDoubling(attempt_, retry_after_secs, jitter_ms) ==
    (IF IsSome(retry_after_secs) THEN Unwrap(retry_after_secs) * 1000 ELSE 250) + jitter_ms

\* sleep_backoff: the delay in ms it sleeps
sleep_backoff(attempt_, retry_after_secs, jitter_ms) ==
    LET base_ms == 250 * Pow2(Min(attempt_, 10))
        capped_ms == Min(base_ms, 3000)
    IN  (IF IsSome(retry_after_secs) THEN Unwrap(retry_after_secs) * 1000 ELSE capped_ms)
            + jitter_ms

\* a response body: what it parses as, the words of its text, and the
\* first choice's message and the usage when it is a completion
Body(shape, words, message, usage) ==
    [shape |-> shape, words |-> words, message |-> message, usage |-> usage]

ChatMessage(content, tool_calls) == [content |-> content, tool_calls |-> tool_calls]

\* a mutant of ParsesAsCompletion: a body without choices does not parse
ParsesOnlyWithChoices(body) == body.shape = "completion"

\* serde_json::from_str::<ChatCompletionResponse>(&body) succeeds
ParsesAsCompletion(body) == body.shape \in {"completion", "no_choices"}

Answer(net, status, retry_after, read, body) ==
    [net |-> net, status |-> status, retry_after |-> retry_after, read |-> read,
     body |-> body]

\* the return value of send_request
SendOk(message, usage) == [ok |-> TRUE, message |-> Some(message), usage |-> usage, err |-> None]
SendErr(err) == [ok |-> FALSE, message |-> None, usage |-> None, err |-> Some(err)]

MAX_RETRIES == 2

Retry(retry_after_secs, http_err) ==
    [retry |-> TRUE, retry_after |-> retry_after_secs, http_err |-> http_err,
     ret |-> None]
Return(value) ==
    [retry |-> FALSE, retry_after |-> None, http_err |-> None, ret |-> Some(value)]

\* a mutant of RetryAllowed: a 429 is retried like any other status
RetryAllowedAlways(status, retry_after, retry_429_) == TRUE

\* retry_allowed of send_request
RetryAllowed(status, retry_after, retry_429_) ==
    IF status = 429 THEN retry_429_ \/ IsSome(retry_after) ELSE TRUE

\* a mutant of CanRetry: the last attempt may `continue` too
CanRetryOnLast(attempt_) == attempt_ <= MAX_RETRIES

\* attempt < MAX_RETRIES, the guard of each `continue` of send_request
CanRetry(attempt_) == attempt_ < MAX_RETRIES

\* the body of the for loop of send_request, for the answer o of the HTTP
\* attempt: continue (Retry) or return (Return)
AttemptBody(attempt_, o, retry_429_) ==
    IF IsSome(o.net)
    THEN IF CanRetry(attempt_) /\ should_retry_reqwest_error(Unwrap(o.net))
         THEN Retry(None, None)
         ELSE Return(SendErr(Err("request_failed", 0, attempt_,
                                 {"OpenRouter", "request", "failed:", "POST"})))
    ELSE IF IsSome(o.read)
    THEN IF CanRetry(attempt_) /\ should_retry_reqwest_error(Unwrap(o.read))
         THEN Retry(None, None)
         ELSE Return(SendErr(Err("body_read", o.status, attempt_,
                                 {"failed", "to", "read", "OpenRouter", "response",
                                  "body"})))
    ELSE IF ~is_success(o.status)
    THEN LET retry_after == RetryAfterOf(o.retry_after)
             retry_allowed == RetryAllowed(o.status, retry_after, retry_429_)
             http_err == Err("http", o.status, attempt_,
                             format_openrouter_http_error(o.status, o.body))
         IN  IF CanRetry(attempt_) /\ retry_allowed /\ should_retry_status(o.status)
             THEN Retry(retry_after, Some(http_err))
             ELSE Return(SendErr(http_err))
    ELSE IF ~ParsesAsCompletion(o.body)
    THEN Return(SendErr(Err("unexpected_body", o.status, attempt_,
                            {"OpenRouter", "returned", "an", "unexpected", "response",
                             "body"} \cup o.body.words)))
    ELSE IF o.body.shape = "no_choices"
    THEN Return(SendErr(Err("no_choices", o.status, attempt_,
                            {"no", "choices", "in", "response"})))
    ELSE Return(SendOk(Unwrap(o.body.message), o.body.usage))

(***************************************************************************)
(* Events (the JSON objects handed to Logger::log_event).  An item id      *)
(* "item_<n>" is the number n.                                             *)
(***************************************************************************)
Event(type, id, item_type, status, text) ==
    [type |-> type, id |-> id, item_type |-> item_type, status |-> status,
     text |-> text, err |-> None, usage |-> None, data |-> {}]

\* log_thread_started: the event carries thread_id, the session id
ThreadStarted ==
    [Event("thread.started", None, "", "", "") EXCEPT !.data = {<<"thread_id", "session">>}]
\* log_turn_started: the event carries prompt and system_prompt
TurnStarted ==
    [Event("turn.started", None, "", "", "")
        EXCEPT !.data = {<<"prompt", "task">>, <<"system_prompt", "system prompt">>}]

\* a mutant of StartEvents: turn.started is written first
StartEventsSwapped == <<TurnStarted, ThreadStarted>>

\* run, lines 90-91
StartEvents == <<ThreadStarted, TurnStarted>>
\* a mutant of TurnCompleted: the event written is turn.failed
TurnCompletedAsFailed(usage_total) ==
    [Event("turn.failed", None, "", "", "") EXCEPT !.usage = Some(usage_total)]

\* log_turn_completed
TurnCompleted(usage_total) ==
    [Event("turn.completed", None, "", "", "") EXCEPT !.usage = Some(usage_total)]
\* log_turn_failed
TurnFailed(err) == [Event("turn.failed", None, "", "", "") EXCEPT !.err = Some(err)]
\* log_error_event
ErrorEvent(err) == [Event("error", None, "", "", "") EXCEPT !.err = Some(err)]
\* log_warning_item
WarningItem(id, message) == Event("item.completed", Some(id), "error", "", message)
\* log_agent_message
AgentMessage(id, text) == Event("item.completed", Some(id), "agent_message", "", text)
\* log_command_execution_started
CommandStarted(id, command) ==
    Event("item.started", Some(id), "command_execution", "in_progress", command)
\* a mutant of CommandCompleted: the completion carries the next id
CommandCompletedNextId(id, command, success) ==
    Event("item.completed", Some(id + 1), "command_execution",
          IF success THEN "completed" ELSE "failed", command)

\* log_command_execution_completed
CommandCompleted(id, command, success) ==
    Event("item.completed", Some(id), "command_execution",
          IF success THEN "completed" ELSE "failed", command)
\* the file_change item of log_tool_result
FileChange(id, success) ==
    Event("item.completed", Some(id), "file_change",
          IF success THEN "completed" ELSE "failed", "")

(***************************************************************************)
(* Strings.                                                                *)
(***************************************************************************)
\* s.trim().is_empty(), for the strings of this model
TrimIsEmpty(str) == str \in {"", " ", "  "}

\* Option<String>::unwrap_or_default
UnwrapOrDefault(o) == IF IsSome(o) THEN Unwrap(o) ELSE ""

\* a mutant of DEFAULT_CONTINUE_MESSAGE: the nudge is empty
ContinueMessageEmpty == ""

\* constants.rs, line 1
DEFAULT_CONTINUE_MESSAGE == "Please proceed to the next step using your best judgement. If you believe you are finished, double check your work to continue to refine and improve your submission."

MultipleToolCalls == "Multiple tool calls in one step are not supported."

\* tool_error: the JSON string {"error": message}
tool_error(message) == "{\"error\":\"" \o message \o "\"}"

\* the payloads execute_tool returns in this model
PayloadExit0 == "{\"exit_code\":0,\"stdout\":\"out\"}"
PayloadExit1 == "{\"exit_code\":1,\"stderr\":\"boom\"}"

KnownTools == {"shell_command", "read_file", "list_dir", "grep_files", "web_search",
               "web_open", "web_find", "apply_patch"}

ToolOk(content) == [ok |-> TRUE, content |-> content]
ToolErr(message) == [ok |-> FALSE, content |-> message]

\* execute_tool: the results it can return for a call.  Arguments that are
\* no JSON fail the first `?`; an unknown name is an Ok error payload; a
\* known tool succeeds or fails
execute_tool(tool_call) ==
    IF ~tool_call.arguments.wf
    THEN {ToolErr("expected value at line 1 column 1")}
    ELSE IF tool_call.name \notin KnownTools
    THEN {ToolOk(tool_error("Unknown tool: " \o tool_call.name))}
    ELSE {ToolOk(PayloadExit0), ToolOk(PayloadExit1), ToolErr("tool failed")}

\* parse_command_output: Some(exit_code) when the content is a JSON object
\* with an integer exit_code
parse_command_output(content) ==
    CASE content = PayloadExit0 -> Some(0)
      [] content = PayloadExit1 -> Some(1)
      [] OTHER -> None

\* output_is_error_json: the content is a JSON object with an "error" key
output_is_error_json(content) ==
    \/ content = tool_error(MultipleToolCalls)
    \/ content = tool_error("tool failed")
    \/ content = tool_error("expected value at line 1 column 1")
    \/ \E n \in {"submit", "nope"} : content = tool_error("Unknown tool: " \o n)

\* parse_submit_answer: Ok(answer) when the arguments are a JSON object
\* with a string "answer"
parse_submit_answer(arguments) ==
    IF arguments.wf /\ IsSome(arguments.answer)
    THEN [ok |-> TRUE, answer |-> Unwrap(arguments.answer)]
    ELSE [ok |-> FALSE, answer |-> ""]

\* the return value of Agent::run
RunOk(text) == [ok |-> TRUE, text |-> text, err |-> None]
RunErr(err) == [ok |-> FALSE, text |-> "", err |-> Some(err)]

\* a mutant of update_usage: the total is replaced by the last completion's
\* usage
UpdateUsageReplaces(total, usage) ==
    [input_tokens |-> usage.prompt_tokens,
     cached_input_tokens |-> IF IsSome(usage.cached_tokens)
                             THEN Unwrap(usage.cached_tokens) ELSE 0,
     output_tokens |-> usage.completion_tokens]

\* token_usage_from_usage followed by TokenUsage::add_assign
update_usage(total, usage) ==
    [input_tokens |-> total.input_tokens + usage.prompt_tokens,
     cached_input_tokens |-> total.cached_input_tokens
                               + (IF IsSome(usage.cached_tokens)
                                  THEN Unwrap(usage.cached_tokens) ELSE 0),
     output_tokens |-> total.output_tokens + usage.completion_tokens]

(***************************************************************************)
(* Agent::run.                                                             *)
(***************************************************************************)
SystemMessage == Msg("system", Some("system prompt"), None, None)
TaskMessage == Msg("user", Some("task"), None, None)

\* the time limits a run is configured with, in ticks of the clock
TimeLimits == {0, 1}

\* Agent::new
Init ==
    /\ messages = <<>>
    /\ max_steps \in {None} \cup {Some(n) : n \in 0..MaxSteps}
    /\ time_limit \in {None} \cup {Some(t) : t \in TimeLimits}
    /\ elapsed = 0
    /\ submit_enabled \in BOOLEAN
    /\ retry_429 \in BOOLEAN
    /\ next_item_id = 0
    /\ token_usage_total = [input_tokens |-> 0, cached_input_tokens |-> 0, output_tokens |-> 0]
    /\ events = <<>>
    /\ pc = "new" /\ steps = 0 /\ last_len = 0 /\ recovering = FALSE
    /\ request = <<>> /\ result = None
    /\ attempt = 0 /\ last_http_err = None /\ resp = None /\ http = <<>> /\ sleeps = <<>>
    /\ dispatched = None /\ invocations = <<>> /\ evMark = 0 /\ resends = 0
    /\ pin = <<>> /\ prunes = 0 /\ first_len = 0
    /\ IdleLogger /\ IdleChain

\* run, lines 80-95: the two start events, then the conversation is seeded
RunStart ==
    /\ pc = "new"
    /\ events' = events \o StartEvents
    /\ messages' = messages \o <<SystemMessage, TaskMessage>>
    /\ pc' = "top"
    /\ UNCHANGED <<chainVars, logVars, cfgVars, elapsed, sendVars, toolVars, next_item_id, token_usage_total, steps,
                   last_len, recovering, request, result, evMark, resends, pin, prunes, first_len>>

\* a mutant of MaxStepsText: the message does not name the limit
MaxStepsTextNoLimit(n) == "Terminated: max_steps reached."

\* "Terminated: max_steps (n) reached."
MaxStepsText(n) == "Terminated: max_steps (" \o ToString(n) \o ") reached."

\* a mutant of MaxStepsReached: one step more is allowed
MaxStepsOneMore(steps_, max_steps_) == IsSome(max_steps_) /\ steps_ > Unwrap(max_steps_)

\* a mutant of MaxStepsReached: the step budget is never looked at
MaxStepsNeverReached(steps_, max_steps_) == FALSE

\* steps >= max_steps, when max_steps is set
MaxStepsReached(steps_, max_steps_) == IsSome(max_steps_) /\ steps_ >= Unwrap(max_steps_)

\* run, lines 98-105: the step budget is used up
BudgetExhausted ==
    /\ pc = "top"
    /\ MaxStepsReached(steps, max_steps)
    /\ events' = events \o <<WarningItem(next_item_id, MaxStepsText(Unwrap(max_steps))),
                             TurnCompleted(token_usage_total)>>
    /\ next_item_id' = next_item_id + 1
    /\ result' = Some(RunOk(MaxStepsText(Unwrap(max_steps))))
    /\ pc' = "done"
    /\ UNCHANGED <<chainVars, logVars, cfgVars, elapsed, sendVars, toolVars, messages, token_usage_total, steps,
                   last_len, recovering, request, evMark, resends, pin, prunes, first_len>>

\* a mutant of TimeLimitReached: the limit must be passed, not just met
TimeLimitPassed(elapsed_, time_limit_) ==
    IsSome(time_limit_) /\ elapsed_ > Unwrap(time_limit_)

\* start.elapsed() >= limit, when time_limit is set
TimeLimitReached(elapsed_, time_limit_) ==
    IsSome(time_limit_) /\ elapsed_ >= Unwrap(time_limit_)

TimeLimitText == "Terminated: time_limit reached."

\* run, lines 106-113: the time budget is used up (the step budget is not)
TimeExhausted ==
    /\ pc = "top"
    /\ ~MaxStepsReached(steps, max_steps)
    /\ TimeLimitReached(elapsed, time_limit)
    /\ events' = events \o <<WarningItem(next_item_id, TimeLimitText),
                             TurnCompleted(token_usage_total)>>
    /\ next_item_id' = next_item_id + 1
    /\ result' = Some(RunOk(TimeLimitText))
    /\ pc' = "done"
    /\ UNCHANGED <<chainVars, logVars, cfgVars, elapsed, sendVars, toolVars, messages, token_usage_total, steps,
                   last_len, recovering, request, evMark, resends, pin, prunes, first_len>>

\* time passes while run is at work; the clock is followed up to the limit
Tick ==
    /\ pc \in {"top", "send_request", "returned", "execute_tool"}
    /\ IsSome(time_limit) /\ elapsed < Unwrap(time_limit)
    /\ elapsed' = elapsed + 1
    /\ UNCHANGED <<chainVars, logVars, cfgVars, sendVars, toolVars, messages, next_item_id, token_usage_total,
                   events, pc, steps, last_len, recovering, request, result, evMark,
                   resends, pin, prunes, first_len>>

\* the state of send_request as it is entered
EnterSend ==
    /\ attempt' = 0 /\ last_http_err' = None /\ resp' = None
    /\ http' = <<>> /\ sleeps' = <<>>

\* run, lines 97-117: no budget is used up and a step begins; the request is built and send_request
\* is entered
StepBegin ==
    /\ pc = "top"
    /\ ~MaxStepsReached(steps, max_steps)
    /\ ~TimeLimitReached(elapsed, time_limit)
    /\ steps < MaxSteps
    /\ steps' = steps + 1
    /\ request' = messages
    /\ EnterSend
    /\ recovering' = FALSE
    /\ resends' = 0
    /\ evMark' = Len(events)
    /\ invocations' = <<>>
    /\ pc' = "send_request"
    /\ UNCHANGED <<chainVars, logVars, cfgVars, elapsed, messages, next_item_id, token_usage_total, events, last_len,
                   result, dispatched, pin, prunes, first_len>>

\* a mutant of HttpAttempt: an attempt that is retried writes an error event
HttpAttemptLogsRetry(answers, jitters) ==
    /\ pc = "send_request"
    /\ \E o \in answers, jitter_ms \in jitters :
         LET out == AttemptBody(attempt, o, retry_429)
         IN  /\ http' = Append(http, o)
             /\ IF out.retry
                THEN /\ sleeps' = Append(sleeps,
                                         sleep_backoff(attempt, out.retry_after, jitter_ms))
                     /\ last_http_err' = out.http_err
                     /\ attempt' = attempt + 1
                     /\ events' = Append(events, Event("error", None, "", "", "retry"))
                     /\ UNCHANGED <<resp, pc>>
                ELSE /\ resp' = out.ret
                     /\ pc' = "returned"
                     /\ UNCHANGED <<attempt, last_http_err, sleeps, events>>
    /\ UNCHANGED <<chainVars, logVars, cfgVars, elapsed, toolVars, messages, next_item_id,
                   token_usage_total, steps, last_len, recovering, request, result, evMark,
                   resends, pin, prunes, first_len>>

\* send_request, lines 278-376: one pass of the for loop, for an HTTP answer
\* drawn from `answers` and a jitter drawn from `jitters`
HttpAttempt(answers, jitters) ==
    /\ pc = "send_request"
    /\ \E o \in answers, jitter_ms \in jitters :
         LET out == AttemptBody(attempt, o, retry_429)
         IN  /\ http' = Append(http, o)
             /\ IF out.retry
                THEN /\ sleeps' = Append(sleeps,
                                         sleep_backoff(attempt, out.retry_after, jitter_ms))
                     /\ last_http_err' = out.http_err
                     /\ IF attempt < MAX_RETRIES
                        THEN /\ attempt' = attempt + 1
                             /\ UNCHANGED <<resp, pc>>
                        ELSE \* the loop is over: line 376
                             /\ resp' = Some(SendErr(
                                    IF IsSome(out.http_err) THEN Unwrap(out.http_err)
                                    ELSE Err("after_retries", 0, attempt,
                                             {"OpenRouter", "request", "failed",
                                              "after", "retries"})))
                             /\ pc' = "returned"
                             /\ UNCHANGED attempt
                ELSE /\ resp' = out.ret
                     /\ pc' = "returned"
                     /\ UNCHANGED <<attempt, last_http_err, sleeps>>
    /\ UNCHANGED <<chainVars, logVars, cfgVars, elapsed, toolVars, messages, next_item_id, token_usage_total, events,
                   steps, last_len, recovering, request, result, evMark, resends,
                   pin, prunes, first_len>>

\* run, lines 119-125 and 145-153: send_request failed, and not for the
\* context length
SendFailed ==
    /\ pc = "returned"
    /\ ~Unwrap(resp).ok
    /\ ~is_context_error(Unwrap(Unwrap(resp).err).words)
    /\ events' = events \o <<ErrorEvent(Unwrap(Unwrap(resp).err)),
                             TurnFailed(Unwrap(Unwrap(resp).err))>>
    /\ result' = Some(RunErr(Unwrap(Unwrap(resp).err)))
    /\ pc' = "done"
    /\ UNCHANGED <<chainVars, logVars, cfgVars, elapsed, sendVars, toolVars, messages, next_item_id, token_usage_total,
                   steps, last_len, recovering, request, evMark, resends, pin, prunes, first_len>>

\* last_len when the loop body at line 132 runs: set at line 129 on the
\* first failure of the step, at line 137 afterwards
LastLen == IF recovering THEN last_len ELSE Len(messages)

\* a mutant of Shrunk: a prune that kept the length is re-sent too
ShrunkOrSame(new_len, last_len_) == new_len <= last_len_

\* the negation of `new_len >= last_len` (line 134)
Shrunk(new_len, last_len_) == ~(new_len >= last_len_)

\* run, lines 129-140: a context-length failure; the prune shortened the
\* conversation and the request is sent again
PruneAndResend ==
    /\ pc = "returned"
    /\ ~Unwrap(resp).ok
    /\ is_context_error(Unwrap(Unwrap(resp).err).words)
    /\ Shrunk(Len(prune_messages(messages)), LastLen)
    /\ pin' = messages
    /\ prunes' = prunes + 1
    /\ messages' = prune_messages(messages)
    /\ last_len' = Len(prune_messages(messages))
    /\ recovering' = TRUE
    /\ request' = prune_messages(messages)
    /\ resends' = resends + 1
    /\ first_len' = (IF recovering THEN first_len ELSE Len(messages))
    /\ EnterSend
    /\ pc' = "send_request"
    /\ UNCHANGED <<chainVars, logVars, cfgVars, elapsed, toolVars, next_item_id, token_usage_total, events, steps,
                   result, evMark>>

ContextLengthText == "Terminated: context length exceeded."

\* run, lines 129-135 and 157-164: a context-length failure; the prune did
\* not shorten the conversation
PruneExhausted ==
    /\ pc = "returned"
    /\ ~Unwrap(resp).ok
    /\ is_context_error(Unwrap(Unwrap(resp).err).words)
    /\ ~Shrunk(Len(prune_messages(messages)), LastLen)
    /\ pin' = messages
    /\ prunes' = prunes + 1
    /\ messages' = prune_messages(messages)
    /\ last_len' = LastLen
    /\ first_len' = (IF recovering THEN first_len ELSE Len(messages))
    /\ recovering' = TRUE
    /\ events' = events \o <<WarningItem(next_item_id, ContextLengthText),
                             TurnCompleted(token_usage_total)>>
    /\ next_item_id' = next_item_id + 1
    /\ result' = Some(RunOk(ContextLengthText))
    /\ pc' = "done"
    /\ UNCHANGED <<chainVars, logVars, cfgVars, elapsed, sendVars, toolVars, token_usage_total, steps, request,
                   evMark, resends>>

\* the completion send_request returned and what run derives from it on
\* lines 168-186
Reply == Unwrap(Unwrap(resp).message)
ContentText == UnwrapOrDefault(Reply.content)
Assistant == Msg("assistant", Reply.content, Reply.tool_calls, None)
ToolCalls == IF IsSome(Reply.tool_calls) THEN Unwrap(Reply.tool_calls) ELSE <<>>

\* lines 177-179: the agent message of a reply with visible text
ReplyEvents ==
    IF ~TrimIsEmpty(ContentText) THEN <<AgentMessage(next_item_id, ContentText)>> ELSE <<>>

\* lines 182-184
ReplyUsage ==
    IF IsSome(Unwrap(resp).usage)
    THEN update_usage(token_usage_total, Unwrap(Unwrap(resp).usage))
    ELSE token_usage_total

\* a mutant of Intercepted: submit is dispatched like any other tool
InterceptedNever(tool_calls, submit_enabled_) == FALSE

\* a mutant of Intercepted: submit is intercepted with submission disabled too
InterceptedWhenDisabled(tool_calls, submit_enabled_) ==
    tool_calls # <<>> /\ tool_calls[1].name = "submit"

\* line 192: the first tool call is an intercepted submit
Intercepted(tool_calls, submit_enabled_) ==
    /\ tool_calls # <<>>
    /\ tool_calls[1].name = "submit"
    /\ submit_enabled_

\* the call line 193 reads the answer from
SubmitCall(tool_calls) ==
    tool_calls[CHOOSE i \in 1..Len(tool_calls) :
                  /\ tool_calls[i].name = "submit"
                  /\ \A j \in 1..(i - 1) : tool_calls[j].name # "submit"]

\* run, lines 168-199: the reply's first tool call is submit and submission
\* is enabled
ReplySubmit ==
    /\ pc = "returned"
    /\ Unwrap(resp).ok
    /\ Intercepted(ToolCalls, submit_enabled)
    /\ messages' = Append(messages, Assistant)
    /\ token_usage_total' = ReplyUsage
    /\ LET parsed == parse_submit_answer(SubmitCall(ToolCalls).arguments)
           id == next_item_id + Len(ReplyEvents)
       IN  IF parsed.ok
           THEN /\ events' = events \o ReplyEvents
                               \o (IF ~TrimIsEmpty(parsed.answer)
                                   THEN <<AgentMessage(id, parsed.answer)>> ELSE <<>>)
                               \o <<TurnCompleted(ReplyUsage)>>
                /\ next_item_id' = id + (IF ~TrimIsEmpty(parsed.answer) THEN 1 ELSE 0)
                /\ result' = Some(RunOk(parsed.answer))
           ELSE \* the `?` of line 193
                /\ events' = events \o ReplyEvents
                /\ next_item_id' = id
                /\ result' = Some(RunErr(Err("submit_arguments", 0, 0,
                                             {"missing", "field", "answer"})))
    /\ pc' = "done"
    /\ UNCHANGED <<chainVars, logVars, cfgVars, elapsed, sendVars, toolVars, steps, last_len, recovering, request,
                   evMark, resends, pin, prunes, first_len>>

\* tool_command_string
tool_command_string(tool_call) ==
    IF tool_call.name = "shell_command" THEN "bash -lc" ELSE "tool:" \o tool_call.name

\* run, lines 168-209: the reply's first tool call is dispatched; execute_tool
\* is running when the action ends
ReplyDispatch ==
    /\ pc = "returned"
    /\ Unwrap(resp).ok
    /\ ToolCalls # <<>>
    /\ ~Intercepted(ToolCalls, submit_enabled)
    /\ messages' = Append(messages, Assistant)
    /\ token_usage_total' = ReplyUsage
    /\ LET tool_call == ToolCalls[1]
           id == next_item_id + Len(ReplyEvents)
       IN  IF tool_call.name = "apply_patch"
           THEN \* prepare_tool_logging: no command item
                /\ events' = events \o ReplyEvents
                /\ next_item_id' = id
                /\ dispatched' = Some([call |-> tool_call, item_id |-> None,
                                       rest |-> Tail(ToolCalls)])
           ELSE /\ events' = events \o ReplyEvents
                               \o <<CommandStarted(id, tool_command_string(tool_call))>>
                /\ next_item_id' = id + 1
                /\ dispatched' = Some([call |-> tool_call, item_id |-> Some(id),
                                       rest |-> Tail(ToolCalls)])
    /\ invocations' = Append(invocations, ToolCalls[1])
    /\ pc' = "execute_tool"
    /\ UNCHANGED <<chainVars, logVars, cfgVars, elapsed, sendVars, steps, last_len, recovering, request, result,
                   evMark, resends, pin, prunes, first_len>>

\* a mutant of ToolResultEvent: the status is that of the dispatch alone
ToolResultEventBySuccess(d, content, success, id) ==
    IF d.call.name = "apply_patch"
    THEN FileChange(id, success)
    ELSE CommandCompleted(IF IsSome(d.item_id) THEN Unwrap(d.item_id) ELSE id,
                          tool_command_string(d.call), success)

\* log_tool_result: the event it writes for the dispatched call
ToolResultEvent(d, content, success, id) ==
    IF d.call.name = "apply_patch"
    THEN FileChange(id,
                    IF IsSome(parse_command_output(content))
                    THEN Unwrap(parse_command_output(content)) = 0
                    ELSE success /\ ~output_is_error_json(content))
    ELSE CommandCompleted(
            IF IsSome(d.item_id) THEN Unwrap(d.item_id) ELSE id,
            tool_command_string(d.call),
            IF d.call.name = "shell_command"
            THEN (IF IsSome(parse_command_output(content))
                  THEN Unwrap(parse_command_output(content)) = 0
                  ELSE success)
            ELSE success /\ ~output_is_error_json(content))

\* a mutant of ToolResultIds: log_tool_result never takes a new id
ToolResultIdsNone(d) == 0

\* the ids log_tool_result takes from next_item_id
ToolResultIds(d) == IF d.call.name = "apply_patch" \/ ~IsSome(d.item_id) THEN 1 ELSE 0

ToolMessage(id, content) == Msg("tool", Some(content), None, Some(id))

\* a mutant of ExtraMessages: the last of the extra calls is not answered
ExtraMessagesButLast(rest) ==
    [i \in 1..(Len(rest) - 1) |-> ToolMessage(rest[i].id, tool_error(MultipleToolCalls))]

\* a mutant of ExtraMessages: the extra calls are not answered
ExtraMessagesNone(rest) == <<>>

\* lines 228-234: the Tool messages of the calls after the first
ExtraMessages(rest) ==
    [i \in 1..Len(rest) |-> ToolMessage(rest[i].id, tool_error(MultipleToolCalls))]

\* lines 235-237: their warning items
ExtraWarnings(rest, id) ==
    [i \in 1..Len(rest) |-> WarningItem(id + i - 1, MultipleToolCalls)]

\* a mutant of ToolContent: the error of a failed tool is dropped
ToolContentNoError(r) == IF r.ok THEN r.content ELSE ""

\* lines 211-214: the content of the Tool message
ToolContent(r) == IF r.ok THEN r.content ELSE tool_error(r.content)

\* run, lines 209-240: execute_tool returns; the Tool message and the item
\* of the first call, then the error messages and warnings of the others
ToolReturn ==
    /\ pc = "execute_tool"
    /\ \E r \in execute_tool(Unwrap(dispatched).call) :
         LET d == Unwrap(dispatched)
             content == ToolContent(r)
             id == next_item_id + ToolResultIds(d)
         IN  /\ messages' = messages \o <<ToolMessage(d.call.id, content)>>
                                     \o ExtraMessages(d.rest)
             /\ events' = events \o <<ToolResultEvent(d, content, r.ok, next_item_id)>>
                                 \o ExtraWarnings(d.rest, id)
             /\ next_item_id' = id + Len(d.rest)
    /\ dispatched' = None
    /\ pc' = "top"
    /\ UNCHANGED <<chainVars, logVars, cfgVars, elapsed, sendVars, invocations, token_usage_total, steps, last_len,
                   recovering, request, result, evMark, resends, pin, prunes, first_len>>

\* run, lines 243-249: no tool call and submission is enabled
ReplyContinue ==
    /\ pc = "returned"
    /\ Unwrap(resp).ok
    /\ ToolCalls = <<>>
    /\ submit_enabled
    /\ messages' = messages \o <<Assistant,
                                 Msg("user", Some(DEFAULT_CONTINUE_MESSAGE), None, None)>>
    /\ token_usage_total' = ReplyUsage
    /\ events' = events \o ReplyEvents
    /\ next_item_id' = next_item_id + Len(ReplyEvents)
    /\ pc' = "top"
    /\ UNCHANGED <<chainVars, logVars, cfgVars, elapsed, sendVars, toolVars, steps, last_len, recovering, request,
                   result, evMark, resends, pin, prunes, first_len>>

\* run, lines 251-253: no tool call and submission is disabled
ReplyFinal ==
    /\ pc = "returned"
    /\ Unwrap(resp).ok
    /\ ToolCalls = <<>>
    /\ ~submit_enabled
    /\ messages' = Append(messages, Assistant)
    /\ token_usage_total' = ReplyUsage
    /\ events' = events \o ReplyEvents \o <<TurnCompleted(ReplyUsage)>>
    /\ next_item_id' = next_item_id + Len(ReplyEvents)
    /\ result' = Some(RunOk(UnwrapOrDefault(Reply.content)))
    /\ pc' = "done"
    /\ UNCHANGED <<chainVars, logVars, cfgVars, elapsed, sendVars, toolVars, steps, last_len, recovering, request,
                   evMark, resends, pin, prunes, first_len>>

(***************************************************************************)
(* The answers of the completion endpoint.                                 *)
(***************************************************************************)
Usage(prompt_tokens, completion_tokens, cached_tokens) ==
    [prompt_tokens |-> prompt_tokens, completion_tokens |-> completion_tokens,
     cached_tokens |-> cached_tokens]

Call(id, name, arguments) == ToolCallOf(id, name, arguments)
SubmitArgs(answer) == Args(TRUE, Some(answer))
BadArgs == Args(FALSE, None)

Completion(content, tool_calls, usage) ==
    Body("completion", {}, Some(ChatMessage(content, tool_calls)), usage)

\* the completions the model draws replies from
Completions ==
    { Completion(Some("ok"), None, Some(Usage(1, 1, None))),
      Completion(None, Some(<<>>), None),
      Completion(Some(" "), Some(<<Call("c1", "shell_command", GoodArgs)>>),
                 Some(Usage(2, 1, Some(1)))),
      Completion(None, Some(<<Call("c1", "read_file", BadArgs)>>), None),
      Completion(None, Some(<<Call("c1", "nope", GoodArgs)>>), None),
      Completion(None, Some(<<Call("c1", "submit", SubmitArgs("42"))>>), None),
      Completion(None, Some(<<Call("c1", "submit", BadArgs)>>), None),
      Completion(Some("ok"), Some(<<Call("c1", "submit", SubmitArgs(" ")),
                                    Call("c2", "shell_command", GoodArgs)>>), None),
      Completion(None, Some(<<Call("c1", "shell_command", GoodArgs),
                              Call("c2", "submit", SubmitArgs("42"))>>), None),
      Completion(None, Some(<<Call("c1", "apply_patch", GoodArgs),
                              Call("c1", "shell_command", GoodArgs),
                              Call("c2", "read_file", BadArgs)>>), None) }

PlainWords == {"rate", "limit"}
ContextWords == {"Context", "LENGTH", "exceeded"}

ErrorBody(words) == Body("error", words, None, None)
MalformedBody(words) == Body("malformed", words, None, None)
NoChoicesBody == Body("no_choices", ContextWords, None, None)

Http(status, retry_after, body) == Answer(None, status, retry_after, None, body)
NetError(err) == Answer(Some(err), 0, None, None, ErrorBody({}))
ReadError(status, err) == Answer(None, status, None, Some(err), ErrorBody({}))

TimeoutErr == ReqwestErr(TRUE, FALSE, FALSE, FALSE, <<"NotIo">>)
DecodeErr == ReqwestErr(FALSE, FALSE, FALSE, TRUE, <<"NotIo">>)
EofErr == ReqwestErr(FALSE, FALSE, FALSE, FALSE, <<"NotIo", "UnexpectedEof">>)
OtherIoErr == ReqwestErr(FALSE, FALSE, FALSE, FALSE, <<"NotIo", "Other">>)
BuilderErr == ReqwestErr(FALSE, FALSE, FALSE, FALSE, <<>>)

\* the answers one HTTP attempt of a run is drawn from
RunAnswers ==
    { Http(503, None, ErrorBody(PlainWords)),
      Http(429, None, ErrorBody(PlainWords)),
      Http(400, None, ErrorBody(ContextWords)),
      Http(401, None, ErrorBody(PlainWords)),
      NetError(BuilderErr),
      Http(200, None, MalformedBody(ContextWords)),
      Http(200, None, NoChoicesBody) }
    \cup {Http(200, None, c) : c \in Completions}

RunJitters == {0}

Next ==
    \/ RunStart
    \/ BudgetExhausted
    \/ TimeExhausted
    \/ Tick
    \/ StepBegin
    \/ HttpAttempt(RunAnswers, RunJitters)
    \/ SendFailed
    \/ PruneAndResend
    \/ PruneExhausted
    \/ ReplySubmit
    \/ ReplyDispatch
    \/ ToolReturn
    \/ ReplyContinue
    \/ ReplyFinal

Spec == Init /\ [][Next]_vars

(***************************************************************************)
(* SpecSend: the first send_request of a run, against every kind of        *)
(* answer, and what run does with an error it returns.                     *)
(***************************************************************************)
\* Retry-After header values
RetryAfterValues ==
    { <<"2">>, <<" ", "1", " ">>, <<"+", "3">>, <<"4">>, <<"W", "e", "d">>, <<"-", "1">>,
      <<>>, <<"1", "\\x80">> }

AllAnswers ==
    {NetError(e) : e \in {TimeoutErr, EofErr, OtherIoErr, BuilderErr}}
    \cup {ReadError(200, e) : e \in {DecodeErr, OtherIoErr}}
    \cup {Http(429, h, ErrorBody(w)) :
            h \in {None} \cup {Some(v) : v \in RetryAfterValues},
            w \in {PlainWords, ContextWords}}
    \cup {Http(st, h, ErrorBody(PlainWords)) :
            st \in {500, 502, 503, 504}, h \in {None, Some(<<"2">>)}}
    \cup {Http(st, None, ErrorBody(w)) :
            st \in {400, 401, 404, 408}, w \in {PlainWords, ContextWords}}
    \cup {Http(200, None, b) :
            b \in {MalformedBody(PlainWords), MalformedBody(ContextWords), NoChoicesBody,
                   Completion(Some("ok"), None, Some(Usage(1, 1, None)))}}

Jitters == {0, 49}

\* the state in which the first step of a run enters send_request
InitSend ==
    /\ messages = <<SystemMessage, TaskMessage>>
    /\ max_steps = None
    /\ time_limit = None /\ elapsed = 0
    /\ submit_enabled = FALSE
    /\ retry_429 \in BOOLEAN
    /\ next_item_id = 0
    /\ token_usage_total = [input_tokens |-> 0, cached_input_tokens |-> 0, output_tokens |-> 0]
    /\ events = StartEvents
    /\ pc = "send_request" /\ steps = 1 /\ last_len = 0 /\ recovering = FALSE
    /\ request = messages /\ result = None
    /\ attempt = 0 /\ last_http_err = None /\ resp = None /\ http = <<>> /\ sleeps = <<>>
    /\ dispatched = None /\ invocations = <<>> /\ evMark = 2 /\ resends = 0
    /\ pin = <<>> /\ prunes = 0 /\ first_len = 0
    /\ IdleLogger /\ IdleChain

NextSend ==
    \/ HttpAttempt(AllAnswers, Jitters)
    \/ SendFailed
    \/ PruneExhausted
    \/ ReplyFinal

SpecSend == InitSend /\ [][NextSend]_vars

(***************************************************************************)
(* SpecLog: the Logger and the end of run_cli.  Agent::run is a caller of  *)
(* Logger::log_event that logs any events and returns Ok or Err; a JSON    *)
(* object is a function from its keys.                                     *)
(***************************************************************************)
\* the variables of Agent::run that SpecLog leaves alone
runVars == <<chainVars, messages, cfgVars, next_item_id, token_usage_total, elapsed, events, steps,
             last_len, recovering, request, sendVars, toolVars, evMark, resends, pin,
             prunes, first_len>>

\* now.format(&Rfc3339), for the times of this model
Rfc3339(ms) == "1970-01-01T00:00:00.00" \o ToString(ms) \o "Z"

\* a mutant of log_event: the two keys are written over what the event has
LogEventOverwrites(event, now_) ==
    [k \in DOMAIN event \cup {"timestamp_ms", "timestamp"} |->
        IF k = "timestamp_ms" THEN now_
        ELSE IF k = "timestamp" THEN Rfc3339(now_)
        ELSE event[k]]

\* Logger::log_event, lines 66-76: the enriched event
log_event(event, now_) ==
    LET ts_ms == now_
    IN  [k \in DOMAIN event \cup {"timestamp_ms", "timestamp"} |->
            IF k \in DOMAIN event THEN event[k]
            ELSE IF k = "timestamp_ms" THEN ts_ms
            ELSE Rfc3339(now_)]

\* a mutant of Push: the sink is left as it was
PushNothing(sink, enriched) == sink

\* Logger::log_event, lines 79-93: the event is given to a sink when the
\* sink is configured
Push(sink, enriched) ==
    IF IsSome(sink) THEN Some(Append(Unwrap(sink), enriched)) ELSE None

\* a mutant of emit_buffer_to_stdout: the buffer is written twice
EmitBufferTwice(buffer_, stdout_) ==
    IF IsSome(buffer_) THEN stdout_ \o Unwrap(buffer_) \o Unwrap(buffer_) ELSE stdout_

\* Logger::emit_buffer_to_stdout: the standard output after the call
emit_buffer_to_stdout(buffer_, stdout_) ==
    IF IsSome(buffer_) THEN stdout_ \o Unwrap(buffer_) ELSE stdout_

\* the events Agent hands to log_event, and events that already carry one
\* or both of the keys log_event adds
LogInputs ==
    { [type |-> "thread.started", thread_id |-> "session"],
      [type |-> "item.completed", item |-> "item_0"],
      [type |-> "turn.failed", error |-> "message", timestamp |-> "given"],
      [type |-> "error", message |-> "message", timestamp_ms |-> 7],
      [type |-> "turn.completed", timestamp_ms |-> 7, timestamp |-> "given"] }

\* the sinks log_event can fail to write to
FailingSinks == {"file_writer", "stdout_writer"}

\* run_cli, lines 24-27: the arguments are parsed and --json with
\* --stream-json is refused
InitLog ==
    /\ json \in BOOLEAN /\ stream_json \in BOOLEAN
    /\ ~(json /\ stream_json)
    /\ file_writer = None /\ stdout_writer = None /\ buffer = None
    /\ stdout = <<>> /\ now = 0 /\ logged = <<>>
    /\ IdleChain
    /\ pc = "run_prompt"
    /\ messages = <<>> /\ pin = <<>> /\ prunes = 0
    /\ max_steps = None /\ submit_enabled = FALSE /\ retry_429 = FALSE
    /\ time_limit = None /\ elapsed = 0
    /\ next_item_id = 0 /\ events = <<>>
    /\ token_usage_total = [input_tokens |-> 0, cached_input_tokens |-> 0, output_tokens |-> 0]
    /\ steps = 0 /\ last_len = 0 /\ recovering = FALSE
    /\ request = <<>> /\ result = None
    /\ attempt = 0 /\ last_http_err = None /\ resp = None /\ http = <<>> /\ sleeps = <<>>
    /\ dispatched = None /\ invocations = <<>> /\ evMark = 0 /\ resends = 0
    /\ first_len = 0

\* run_prompt, lines 17-38, and Logger::new: the file sink always, the
\* stdout stream with --stream-json, the buffer with --json
LoggerNew ==
    /\ pc = "run_prompt"
    /\ file_writer' = Some(<<>>)
    /\ stdout_writer' = (IF stream_json THEN Some(<<>>) ELSE None)
    /\ buffer' = (IF json THEN Some(<<>>) ELSE None)
    /\ pc' = "load_task"
    /\ UNCHANGED <<runVars, result, json, stream_json, stdout, now, logged>>

\* run_prompt, lines 40-98: the agent is built, the task is loaded and
\* Agent::run is entered
RunEntered ==
    /\ pc = "load_task"
    /\ pc' = "run"
    /\ UNCHANGED <<runVars, result, logVars>>

\* run_prompt, lines 45-47, 67-71 and 98: it bails before Agent::run
RunPromptBails ==
    /\ pc = "load_task"
    /\ result' = Some(RunErr(Err("run_prompt", 0, 0, {"failed", "to", "load", "task"})))
    /\ pc' = "run_prompt_returned"
    /\ UNCHANGED <<runVars, logVars>>

\* Logger::log_event, every write succeeding
LogEvent ==
    /\ pc = "run"
    /\ Len(logged) < MaxEvents
    /\ \E event \in LogInputs, passed \in 0..1 :
         LET enriched == log_event(event, now + passed)
         IN  /\ now' = now + passed
             /\ logged' = Append(logged, [event |-> event, now |-> now + passed])
             /\ buffer' = Push(buffer, enriched)
             /\ file_writer' = Push(file_writer, enriched)
             /\ stdout_writer' = Push(stdout_writer, enriched)
             /\ stdout' = (IF IsSome(stdout_writer) THEN Append(stdout, enriched) ELSE stdout)
    /\ UNCHANGED <<runVars, pc, result, json, stream_json>>

\* Logger::log_event, a write to a sink failing (the `?` of lines 84-86 and
\* 90-92): the sinks before it have the event, Agent::run returns the error
LogEventFails ==
    /\ pc = "run"
    /\ Len(logged) < MaxEvents
    /\ \E event \in LogInputs, passed \in 0..1, failing \in FailingSinks :
         LET enriched == log_event(event, now + passed)
         IN  /\ failing = "stdout_writer" => IsSome(stdout_writer)
             /\ now' = now + passed
             /\ logged' = Append(logged, [event |-> event, now |-> now + passed])
             /\ buffer' = Push(buffer, enriched)
             /\ file_writer' = (IF failing = "file_writer" THEN file_writer
                                ELSE Push(file_writer, enriched))
    /\ result' = Some(RunErr(Err("log_event", 0, 0, {"write", "failed"})))
    /\ pc' = "returned"
    /\ UNCHANGED <<runVars, json, stream_json, stdout_writer, stdout>>

\* Agent::run returns, with an answer or with an error
RunReturns ==
    /\ pc = "run"
    /\ result' \in {Some(RunOk("42")),
                    Some(RunErr(Err("after_retries", 0, MAX_RETRIES,
                                    {"OpenRouter", "request", "failed", "after", "retries"})))}
    /\ pc' = "returned"
    /\ UNCHANGED <<runVars, logVars>>

\* run_prompt, lines 102 and 108: the buffer is written to stdout
Flushes(json_, result_) == json_

\* run_prompt, lines 99-114
RunPromptReturns ==
    /\ pc = "returned"
    /\ stdout' = (IF Flushes(json, result)
                  THEN emit_buffer_to_stdout(buffer, stdout) ELSE stdout)
    /\ pc' = "run_prompt_returned"
    /\ UNCHANGED <<runVars, result, json, stream_json, file_writer, stdout_writer, buffer,
                   now, logged>>

\* run_cli, lines 46-58: the answer is printed unless stdout is kept for
\* the events
RunCliReturns ==
    /\ pc = "run_prompt_returned"
    /\ stdout' = (IF Unwrap(result).ok /\ ~stream_json /\ ~json
                  THEN Append(stdout, Unwrap(result).text) ELSE stdout)
    /\ pc' = "exit"
    /\ UNCHANGED <<runVars, result, json, stream_json, file_writer, stdout_writer, buffer,
                   now, logged>>

NextLog ==
    \/ LoggerNew
    \/ RunEntered
    \/ RunPromptBails
    \/ LogEvent
    \/ LogEventFails
    \/ RunReturns
    \/ RunPromptReturns
    \/ RunCliReturns

SpecLog == InitLog /\ [][NextLog]_vars

(***************************************************************************)
(* SpecChain: error_chain_has_retryable_io_dyn applied to any source chain.*)
(***************************************************************************)
\* what an error of a chain is: no std::io::Error, or an io::Error of a kind
ChainErrors ==
    {"NotIo", "Other", "TimedOut", "UnexpectedEof", "ConnectionReset", "ConnectionAborted",
     "BrokenPipe"}

\* the argument is any chain: the error itself, then its sources
InitChain ==
    /\ \E n \in 1..MaxChain : err_chain \in [1..n -> ChainErrors]
    /\ retryable = FALSE
    /\ pc = "error_chain"
    /\ messages = <<>> /\ pin = <<>> /\ prunes = 0
    /\ IdleRun
    /\ IdleLogger

\* error_chain_has_retryable_io_dyn is called and returns
ChainWalk ==
    /\ pc = "error_chain"
    /\ retryable' = error_chain_has_retryable_io_dyn(err_chain)
    /\ pc' = "chain_walked"
    /\ UNCHANGED <<logVars, err_chain, messages, cfgVars, next_item_id, token_usage_total,
                   elapsed, events, steps, last_len, recovering, request, result, sendVars,
                   toolVars, evMark, resends, pin, prunes, first_len>>

NextChain == ChainWalk

SpecChain == InitChain /\ [][NextChain]_vars

(***************************************************************************)
(* Claims about prune_messages (checked under SpecPrune).                  *)
(***************************************************************************)
HasUser(conv) == \E i \in 1..Len(conv) : RoleOf(conv[i]) = "user"

\* index of the nearest Assistant message before position i, 0 when none
PrecedingAssistant(conv, i) ==
    IF \E j \in 1..(i - 1) : RoleOf(conv[j]) = "assistant"
    THEN CHOOSE j \in 1..(i - 1) :
            /\ RoleOf(conv[j]) = "assistant"
            /\ \A k \in (j + 1)..(i - 1) : RoleOf(conv[k]) # "assistant"
    ELSE 0

\* the Tool message at position i answers a call of the nearest preceding
\* Assistant message
Answered(conv, i) ==
    LET j == PrecedingAssistant(conv, i)
    IN  /\ j > 0
        /\ IsSome(conv[i].tool_call_id)
        /\ Unwrap(conv[i].tool_call_id) \in extract_tool_call_ids(conv[j])

NoOrphanTool(conv) ==
    \A i \in 1..Len(conv) : RoleOf(conv[i]) = "tool" => Answered(conv, i)

\* C4 as stated: for any conversation, the output of prune_messages holds no
\* Tool message whose tool_call_id is not a tool-call id of the nearest
\* preceding retained Assistant message.
C4_NoOrphanAnyConversation ==
    (pc = "prune_messages" /\ prunes >= 1) => NoOrphanTool(messages)

\* C4 (amended): for any conversation that contains a User message, the
\* output of prune_messages holds no Tool message whose tool_call_id is not
\* a tool-call id of the nearest preceding retained Assistant message.
C4_NoOrphanWhenAnchored ==
    (pc = "prune_messages" /\ prunes >= 1 /\ HasUser(pin)) => NoOrphanTool(messages)

\* C4 witness: a conversation with a User message and an orphaned Tool
\* message has been pruned, and the orphan is gone
C4_Witness ==
    /\ pc = "prune_messages" /\ prunes >= 1 /\ HasUser(pin)
    /\ ~NoOrphanTool(pin)
    /\ Len(messages) < Len(pin)
    /\ \E i \in 1..Len(messages) : RoleOf(messages[i]) = "tool"

\* C5: for any conversation with a User message, the first User message of
\* the input's non-system part is retained and is the first non-system
\* message of the output.
C5_AnchorRetainedFirst ==
    (pc = "prune_messages" /\ prunes >= 1 /\ HasUser(pin)) =>
        LET nin == NonSystemPart(pin)
            nout == NonSystemPart(messages)
        IN  /\ Len(nout) >= 1
            /\ nout[1] = nin[TaskIdx(nin)]
            /\ RoleOf(nout[1]) = "user"

\* C5 witness: messages stood before the first User message and were
\* discarded, and messages after it were kept
C5_Witness ==
    /\ pc = "prune_messages" /\ prunes = 1 /\ HasUser(pin)
    /\ TaskIdx(NonSystemPart(pin)) >= 2
    /\ Len(NonSystemPart(messages)) >= 2

\* C6: the output begins with exactly the input's System messages, in their
\* original order, and holds no System message after that prefix.
C6_SystemPrefix ==
    (pc = "prune_messages" /\ prunes >= 1) =>
        LET sys == SystemPart(pin)
        IN  /\ Len(messages) >= Len(sys)
            /\ SubSeq(messages, 1, Len(sys)) = sys
            /\ \A i \in (Len(sys) + 1)..Len(messages) : RoleOf(messages[i]) # "system"

\* C6 witness: two System messages stood after a non-system message
C6_Witness ==
    /\ pc = "prune_messages" /\ prunes = 1
    /\ Len(SystemPart(pin)) >= 2
    /\ Len(pin) >= 1 /\ RoleOf(pin[1]) # "system"
    /\ Len(messages) > Len(SystemPart(pin))

\* C7: repeated applications never increase the length, and once an
\* application has left the length unchanged, the next one (hence every
\* later one) leaves the conversation unchanged.
C7_ShrinkOrFixedPoint ==
    [][(pc = "prune_messages") =>
          /\ Len(messages') <= Len(messages)
          /\ (prunes >= 1 /\ Len(messages) = Len(pin)) => messages' = messages]_vars

\* C7 witness: an application has kept the length while moving a System
\* message to the front of an anchored conversation; the next application
\* must now change nothing
C7_Witness ==
    /\ pc = "prune_messages" /\ prunes = 1 /\ HasUser(pin)
    /\ Len(messages) = Len(pin) /\ messages # pin

(***************************************************************************)
(* Claims about one step of Agent::run (checked under Spec).               *)
(***************************************************************************)
\* index of the last Assistant message of the conversation, 0 when none
LastAssistant(conv) == PrecedingAssistant(conv, Len(conv) + 1)

CallsOf(msg) == IF IsSome(msg.tool_calls) THEN Unwrap(msg.tool_calls) ELSE <<>>

\* the events written since the top of the current step
StepEvents == SubSeq(events, evMark + 1, Len(events))


IsMultipleWarning(e) ==
    /\ e.type = "item.completed" /\ e.item_type = "error"
    /\ e.text = "Multiple tool calls in one step are not supported."
    /\ IsSome(e.id)

\* the number of such warning items written in the current step
StepWarnings ==
    Cardinality({i \in 1..Len(StepEvents) : IsMultipleWarning(StepEvents[i])})

MultipleErrorJson == "{\"error\":\"Multiple tool calls in one step are not supported.\"}"

\* C1: when a response carries k >= 2 tool calls and the first is not an
\* intercepted submit, the step hands exactly the first call to the tool
\* collaborator; each of the other k-1 calls is answered by a Tool message
\* with its id and the fixed error text, and one warning item is written
\* per extra call.
C1_OnlyFirstCallDispatched ==
    (pc = "top" /\ LastAssistant(messages) > 0) =>
        LET i == LastAssistant(messages)
            calls == CallsOf(messages[i])
            k == Len(calls)
        IN  (k >= 2 /\ ~(calls[1].name = "submit" /\ submit_enabled)) =>
                /\ invocations = <<calls[1]>>
                /\ Len(messages) = i + k
                /\ RoleOf(messages[i + 1]) = "tool"
                /\ messages[i + 1].tool_call_id = Some(calls[1].id)
                /\ messages[i + 1].content # Some(MultipleErrorJson)
                /\ \A j \in 2..k :
                      /\ RoleOf(messages[i + j]) = "tool"
                      /\ messages[i + j].tool_call_id = Some(calls[j].id)
                      /\ messages[i + j].content = Some(MultipleErrorJson)
                /\ StepWarnings = k - 1

\* C1 witness: a response with three tool calls has been handled
C1_Witness ==
    /\ pc = "top" /\ LastAssistant(messages) > 0
    /\ Len(CallsOf(messages[LastAssistant(messages)])) = 3
    /\ Len(invocations) = 1
    /\ StepWarnings = 2

\* the reply of this step has been handled by run
Replied == IsSome(resp) /\ Unwrap(resp).ok /\ pc \in {"execute_tool", "top", "done"}

RepliedCalls == CallsOf(Unwrap(Unwrap(resp).message))

IsToolItem(e) == e.item_type \in {"command_execution", "file_change"}

\* the number of tool items written in the current step
StepToolItems == Cardinality({i \in 1..Len(StepEvents) : IsToolItem(StepEvents[i])})

IsOkResult(text) == IsSome(result) /\ Unwrap(result).ok /\ Unwrap(result).text = text

\* C2 as stated: whenever submission is enabled and the response contains a
\* tool call named submit, the run ends successfully with that call's
\* answer, the call is never handed to the tool collaborator and no
\* command_execution or file_change item is written for it.
C2_AnySubmitEndsRun ==
    (submit_enabled /\ Replied) =>
        \A i \in 1..Len(RepliedCalls) :
            RepliedCalls[i].name = "submit" =>
                /\ pc = "done"
                /\ IsSome(RepliedCalls[i].arguments.answer)
                /\ IsOkResult(Unwrap(RepliedCalls[i].arguments.answer))
                /\ invocations = <<>>
                /\ StepToolItems = 0

\* C2 (amended): whenever submission is enabled and the FIRST tool call of
\* the response is named submit, the call is never handed to the tool
\* collaborator, no command_execution or file_change item is written, and
\* run returns at once: Ok with the call's answer, after turn.completed,
\* when the arguments parse with a string answer, and Err otherwise.
C2_FirstSubmitEndsRun ==
    (submit_enabled /\ Replied /\ RepliedCalls # <<>>) =>
        (RepliedCalls[1].name = "submit" =>
            /\ pc = "done"
            /\ invocations = <<>>
            /\ StepToolItems = 0
            /\ LET arguments == RepliedCalls[1].arguments
               IN  IF arguments.wf /\ IsSome(arguments.answer)
                   THEN /\ IsOkResult(Unwrap(arguments.answer))
                        /\ events[Len(events)].type = "turn.completed"
                   ELSE IsSome(result) /\ ~Unwrap(result).ok)

\* C2 witness: a submit call standing first, with other calls after it, has
\* ended the run with its answer
C2_Witness ==
    /\ submit_enabled /\ Replied /\ Len(RepliedCalls) = 2
    /\ RepliedCalls[1].name = "submit"
    /\ pc = "done" /\ IsOkResult(" ")

IsErrorJson(content) ==
    content \in {"{\"error\":\"tool failed\"}",
                 "{\"error\":\"expected value at line 1 column 1\"}"}

\* C3: while execute_tool runs, its return -- a payload or an error --
\* appends the Tool message of the dispatched call (an error as the JSON
\* {"error": message}) and one fixed error message per extra call, changes
\* nothing before them, does not make run return and leads to the next step.
C3_ToolFailureNeverAborts ==
    [][(pc = "execute_tool" /\ pc' # "execute_tool") =>
          LET d == Unwrap(dispatched)
              n == Len(messages)
              m == messages'[n + 1]
          IN  /\ pc' = "top"
              /\ result' = None /\ result = None
              /\ Len(messages') = n + 1 + Len(d.rest)
              /\ SubSeq(messages', 1, n) = messages
              /\ RoleOf(m) = "tool" /\ m.tool_call_id = Some(d.call.id)
              /\ IsSome(m.content)
              /\ \A j \in 1..Len(d.rest) :
                    messages'[n + 1 + j].content = Some(MultipleErrorJson)
              /\ (~d.call.arguments.wf =>
                    Unwrap(m.content) = "{\"error\":\"expected value at line 1 column 1\"}")
              /\ (d.call.arguments.wf /\ d.call.name = "nope" =>
                    Unwrap(m.content) = "{\"error\":\"Unknown tool: nope\"}")
              /\ (d.call.arguments.wf /\ d.call.name \in {"shell_command", "apply_patch"} =>
                    \/ IsErrorJson(Unwrap(m.content))
                    \/ IsSome(parse_command_output(Unwrap(m.content))))
              /\ events'[Len(events')].type = "item.completed"
    ]_vars

\* C3 witness: a tool that failed on unparseable arguments has been answered
\* and the run is at the top of the next step
C3_Witness ==
    /\ pc = "top" /\ result = None /\ Len(messages) >= 4
    /\ messages[Len(messages)] =
          Msg("tool", Some("{\"error\":\"expected value at line 1 column 1\"}"), None,
              Some("c1"))
    /\ invocations = <<ToolCallOf("c1", "read_file", Args(FALSE, None))>>

IsContextFailure(r) ==
    /\ IsSome(r) /\ ~Unwrap(r).ok
    /\ LET w == Unwrap(Unwrap(r).err).words
       IN  {"context", "Context"} \cap w # {} /\ {"length", "LENGTH"} \cap w # {}

\* C8: when send_request has returned a context-length failure, run prunes;
\* it re-sends (the pruned conversation) exactly when the prune strictly
\* shortened the conversation, and otherwise makes no further Transport
\* call, writes a warning item then turn.completed and returns
\* "Terminated: context length exceeded."; each re-send of a step has
\* shortened the conversation, so a step re-sends at most as often as the
\* conversation had messages.
C8_PruneLoopShrinksOrStops ==
    [][(pc = "returned" /\ pc' # "returned" /\ IsContextFailure(resp)) =>
          /\ (Len(messages') < Len(messages) =>
                /\ pc' = "send_request" /\ http' = <<>> /\ request' = messages'
                /\ resends' = resends + 1
                /\ first_len' >= resends' + Len(messages')
                /\ resends' <= first_len'
                /\ result' = None /\ events' = events)
          /\ (Len(messages') >= Len(messages) =>
                /\ pc' = "done" /\ http' = http /\ resends' = resends
                /\ result' = Some(RunOk("Terminated: context length exceeded."))
                /\ Len(events') = Len(events) + 2
                /\ events'[Len(events) + 1].item_type = "error"
                /\ events'[Len(events) + 1].text = "Terminated: context length exceeded."
                /\ events'[Len(events) + 2].type = "turn.completed")
    ]_vars

\* C8 witness: after a prune that shortened the conversation and a re-send
\* that failed again, a prune changed nothing and the run has ended
C8_Witness ==
    /\ pc = "done" /\ resends >= 1 /\ prunes >= 2
    /\ IsOkResult("Terminated: context length exceeded.")
    /\ Len(pin) = Len(messages) /\ first_len > Len(messages)

(***************************************************************************)
(* Claims about send_request (checked under SpecSend).                     *)
(***************************************************************************)
\* the answer is no completion: a transport error, a body-read error or a
\* non-2xx status
IsFailure(o) == IsSome(o.net) \/ IsSome(o.read) \/ o.status < 200 \/ o.status > 299

\* the return value is the result of the answer o of attempt number k
\* (counted from 1)
ResultOf(r, o, k) ==
    IF IsSome(o.net)
    THEN ~r.ok /\ Unwrap(r.err).kind = "request_failed" /\ Unwrap(r.err).attempt = k - 1
    ELSE IF IsSome(o.read)
    THEN ~r.ok /\ Unwrap(r.err).kind = "body_read" /\ Unwrap(r.err).attempt = k - 1
    ELSE IF IsFailure(o)
    THEN /\ ~r.ok /\ Unwrap(r.err).kind = "http" /\ Unwrap(r.err).attempt = k - 1
         /\ Unwrap(r.err).status = o.status
         /\ o.body.words \subseteq Unwrap(r.err).words
    ELSE IF o.body.shape = "completion"
    THEN r.ok /\ r.message = o.body.message /\ r.usage = o.body.usage
    ELSE ~r.ok /\ Unwrap(r.err).kind \in {"unexpected_body", "no_choices"}

\* a failure that send_request retries while retries remain: a timeout,
\* decode or truncated-stream error of the request or of the body read, a
\* 500/502/503/504, or a 429 when retry-on-429 is enabled or a Retry-After
\* header is present
RetryableFailure(o) ==
    IF IsSome(o.net) THEN Unwrap(o.net) \in {TimeoutErr, DecodeErr, EofErr}
    ELSE IF IsSome(o.read) THEN Unwrap(o.read) \in {TimeoutErr, DecodeErr, EofErr}
    ELSE \/ o.status \in {500, 502, 503, 504}
         \/ o.status = 429 /\ (retry_429 \/ RetryAfterOf(o.retry_after) # None)

\* C9: one send_request makes at most 3 HTTP attempts; every attempt before
\* the last was a retryable failure, followed by one backoff sleep; the
\* last attempt is the first that is not a retryable failure, or the third;
\* the value returned is the result of the last attempt, so a 503 followed
\* by a 200 returns the 200 result after 2 attempts and a third retryable
\* failure in a row returns the third attempt's error.
C9_AtMostThreeAttempts ==
    /\ Len(http) <= 3
    /\ \A i \in 1..(Len(http) - 1) : RetryableFailure(http[i])
    /\ (pc = "send_request" =>
          /\ resp = None /\ Len(http) = attempt /\ Len(sleeps) = Len(http)
          /\ Len(http) <= 2
          /\ \A i \in 1..Len(http) : RetryableFailure(http[i]))
    /\ (pc # "send_request" =>
          /\ IsSome(resp) /\ Len(http) >= 1
          /\ Len(sleeps) = Len(http) - 1
          /\ (Len(http) = 3 \/ ~RetryableFailure(http[Len(http)]))
          /\ ResultOf(Unwrap(resp), http[Len(http)], Len(http)))

\* C9 witness: a 503 followed by a 200 has returned the completion after
\* two attempts
C9_Witness ==
    /\ pc = "returned" /\ Len(http) = 2
    /\ http[1].status = 503 /\ http[2].status = 200
    /\ Unwrap(resp).ok /\ Len(sleeps) = 1

Is429(o) == ~IsSome(o.net) /\ ~IsSome(o.read) /\ o.status = 429

\* the Retry-After values of this model that parse as seconds
ParsesAsSeconds(h) ==
    IsSome(h) /\ Unwrap(h) \in {<<"2">>, <<" ", "1", " ">>, <<"+", "3">>, <<"4">>}

\* attempt number i (counted from 1) was followed by another attempt, or
\* will be
Retried(i) == i < Len(http) \/ (i = Len(http) /\ pc = "send_request")

Refused429 ==
    /\ Len(http) = 1 /\ Is429(http[1]) /\ pc # "send_request"
    /\ ~retry_429 /\ ~ParsesAsSeconds(http[1].retry_after)

IsErrResult(status) ==
    /\ IsSome(result) /\ ~Unwrap(result).ok
    /\ Unwrap(Unwrap(result).err).status = status

IsHttpFailure(o) == ~IsSome(o.net) /\ ~IsSome(o.read) /\ (o.status < 200 \/ o.status > 299)

\* C11: a non-2xx status is retried only if it is one of 429, 500, 502, 503,
\* 504; any other non-2xx status makes send_request return the formatted
\* HTTP error after exactly one attempt and without a backoff sleep.
C11_OnlyListedStatusesRetried ==
    /\ \A i \in 1..Len(http) :
          (IsHttpFailure(http[i]) /\ Retried(i)) =>
              http[i].status \in {429, 500, 502, 503, 504}
    /\ (/\ Len(http) >= 1 /\ IsHttpFailure(http[1])
        /\ http[1].status \notin {429, 500, 502, 503, 504})
          => /\ pc # "send_request" /\ Len(http) = 1 /\ sleeps = <<>>
             /\ IsSome(resp) /\ ~Unwrap(resp).ok
             /\ LET err == Unwrap(Unwrap(resp).err)
                IN  /\ err.kind = "http" /\ err.status = http[1].status
                    /\ err.attempt = 0
                    /\ {"OpenRouter", "API", "error"} \cup http[1].body.words
                          \subseteq err.words

\* C11 witness: a 408 has been returned as an error after one attempt
C11_Witness ==
    /\ pc = "returned" /\ Len(http) = 1 /\ http[1].status = 408
    /\ sleeps = <<>> /\ ~Unwrap(resp).ok
    /\ Unwrap(Unwrap(resp).err).status = 408

(***************************************************************************)
(* Claims about the budgets and the ways run ends (checked under Spec).    *)
(***************************************************************************)
\* the last two events are a warning item with this text, then turn.completed
EndsWithWarning(evs, text) ==
    /\ Len(evs) >= 2
    /\ evs[Len(evs) - 1].type = "item.completed"
    /\ evs[Len(evs) - 1].item_type = "error"
    /\ evs[Len(evs) - 1].text = text
    /\ evs[Len(evs)].type = "turn.completed"

\* C12: with max_steps = n no more than n steps are ever started; at the top
\* of a step, once n steps have been started, run writes a warning item
\* then turn.completed and returns Ok("Terminated: max_steps (n) reached.")
\* without building or sending a request; with n = 0 no Transport call is
\* ever made.
C12_MaxStepsBoundsSteps ==
    [][IsSome(max_steps) =>
          LET n == Unwrap(max_steps)
              text == "Terminated: max_steps (" \o ToString(n) \o ") reached."
          IN  /\ steps' <= n
              /\ (n = 0 => http' = <<>> /\ request' = <<>>)
              /\ (pc = "top" /\ steps >= n /\ pc' # "top") =>
                    /\ pc' = "done"
                    /\ result' = Some(RunOk(text))
                    /\ Len(events') = Len(events) + 2
                    /\ SubSeq(events', 1, Len(events)) = events
                    /\ EndsWithWarning(events', text)
                    /\ steps' = steps /\ http' = http /\ request' = request
                    /\ messages' = messages
    ]_vars

\* C12 witness: with max_steps = 1 one step was made and the run has ended
\* at the top of the second
C12_Witness ==
    /\ max_steps = Some(1) /\ steps = 1 /\ pc = "done"
    /\ result = Some(RunOk("Terminated: max_steps (1) reached."))
    /\ EndsWithWarning(events, "Terminated: max_steps (1) reached.")
    /\ Len(messages) > 2

\* run is inside a step: between the budget checks and the end of the step
InStep == pc \in {"send_request", "returned", "execute_tool"}

\* run ends at the top of a step with 'Terminated: time_limit reached.',
\* having made no Transport call
TimeLimitEnd ==
    /\ pc' = "done"
    /\ result' = Some(RunOk("Terminated: time_limit reached."))
    /\ Len(events') = Len(events) + 2
    /\ SubSeq(events', 1, Len(events)) = events
    /\ EndsWithWarning(events', "Terminated: time_limit reached.")
    /\ steps' = steps /\ http' = http /\ request' = request /\ messages' = messages

\* inside a step the limit is never consulted: whatever the clock shows,
\* what the step does next is a Transport attempt, the handling of its
\* result or a tool's return, and never the end of the run for the time
\* limit
StepIgnoresLimit ==
    (InStep /\ pc' # pc) =>
        /\ result' # Some(RunOk("Terminated: time_limit reached."))
        /\ elapsed' = elapsed
        /\ (pc = "send_request" => pc' = "returned" /\ Len(http') = Len(http) + 1)
        /\ (pc = "execute_tool" =>
              pc' = "top" /\ Len(messages') > Len(messages) /\ result' = None)
        /\ (pc = "returned" /\ pc' = "done" => IsSome(result'))

\* C13 as stated: if the elapsed time is at least time_limit at the top of
\* a step, run writes a warning item then turn.completed and returns
\* Ok("Terminated: time_limit reached.") without a Transport call; a step
\* that has begun runs to completion even if the limit passes meanwhile.
C13_TimeLimitAtEveryTop ==
    [][IsSome(time_limit) =>
          /\ (pc = "top" /\ elapsed >= Unwrap(time_limit) /\ pc' # "top") => TimeLimitEnd
          /\ StepIgnoresLimit
    ]_vars

\* C13 (amended): ... if the elapsed time is at least time_limit at the top
\* of a step and the step budget is not used up (the max_steps check comes
\* first, and then its message is returned), run writes a warning item then
\* turn.completed and returns Ok("Terminated: time_limit reached.") without
\* a Transport call; a step that has begun runs to completion even if the
\* limit passes meanwhile.
C13_TimeLimitAfterStepBudget ==
    [][IsSome(time_limit) =>
          /\ (/\ pc = "top" /\ elapsed >= Unwrap(time_limit) /\ pc' # "top"
              /\ ~(IsSome(max_steps) /\ steps >= Unwrap(max_steps))) => TimeLimitEnd
          /\ (/\ pc = "top" /\ elapsed >= Unwrap(time_limit) /\ pc' # "top"
              /\ IsSome(max_steps) /\ steps >= Unwrap(max_steps)) =>
                 /\ pc' = "done" /\ http' = http
                 /\ result' = Some(RunOk("Terminated: max_steps ("
                                         \o ToString(Unwrap(max_steps)) \o ") reached."))
          /\ StepIgnoresLimit
    ]_vars

\* C13 witness: the limit passed while a tool was running; the tool call
\* was answered, and the run has ended at the top of the next step
C13_Witness ==
    /\ time_limit = Some(1) /\ elapsed = 1 /\ steps = 1 /\ pc = "done"
    /\ result = Some(RunOk("Terminated: time_limit reached."))
    /\ Len(invocations) = 1
    /\ RoleOf(messages[Len(messages)]) = "tool"

\* send_request has returned an error that is no context-length failure
IsOtherFailure(r) == IsSome(r) /\ ~Unwrap(r).ok /\ ~IsContextFailure(r)

\* C14: when a Transport call -- the first send of a step or a re-send of
\* the pruning sub-loop -- fails with an error that is no context-length
\* failure, run writes an error event then a turn.failed event, both with
\* that error's message, and returns the error; no Transport call and no
\* tool dispatch follow.
C14_OtherFailureIsFatal ==
    [][/\ (pc = "returned" /\ pc' # "returned" /\ IsOtherFailure(resp)) =>
            LET err == Unwrap(Unwrap(resp).err)
                n == Len(events)
            IN  /\ pc' = "done"
                /\ result' = Some([ok |-> FALSE, text |-> "", err |-> Some(err)])
                /\ Len(events') = n + 2
                /\ SubSeq(events', 1, n) = events
                /\ events'[n + 1].type = "error" /\ events'[n + 1].err = Some(err)
                /\ events'[n + 2].type = "turn.failed" /\ events'[n + 2].err = Some(err)
                /\ http' = http /\ invocations' = invocations /\ messages' = messages
       /\ (pc = "done" => UNCHANGED <<pc, http, invocations, events, result>>)
    ]_vars

\* C14 witness: after a prune that shortened the conversation, the re-send
\* was refused with a 401 and the run has failed
C14_Witness ==
    /\ pc = "done" /\ resends >= 1 /\ IsErrResult(401)
    /\ Len(http) = 1 /\ http[1].status = 401
    /\ events[Len(events)].type = "turn.failed"
    /\ events[Len(events) - 1].type = "error"
    /\ invocations = <<>>

\* a response with a 2xx status whose body was read and has this shape
Is2xxWith(o, shape) ==
    /\ ~IsSome(o.net) /\ ~IsSome(o.read)
    /\ o.status >= 200 /\ o.status <= 299
    /\ o.body.shape = shape

\* run fails: an error event and a turn.failed event are written and the
\* error of send_request is returned; the conversation is left alone
FailsRun ==
    /\ pc' = "done"
    /\ IsSome(result') /\ ~Unwrap(result').ok
    /\ Unwrap(result').err = Unwrap(resp).err
    /\ Len(events') = Len(events) + 2
    /\ events'[Len(events) + 1].type = "error"
    /\ events'[Len(events) + 2].type = "turn.failed"
    /\ messages' = messages /\ prunes' = prunes /\ http' = http

\* C15: a 2xx response whose body does not parse as a completion response
\* aborts the run at once, whatever text the body holds: it is not retried,
\* the conversation is not pruned, error and turn.failed events are written
\* and the error is returned.
C15_MalformedBodyAborts ==
    [][/\ \A i \in 1..Len(http) :
             Is2xxWith(http[i], "malformed") => (i = Len(http) /\ pc # "send_request")
       /\ (/\ pc = "returned" /\ pc' # "returned"
           /\ Is2xxWith(http[Len(http)], "malformed")) => FailsRun
    ]_vars

\* C16: a 2xx response that parses but has no choices is fatal and not
\* retried: send_request returns the error after that single attempt,
\* without a backoff sleep, and run then fails with error and turn.failed
\* events instead of pruning.
C16_NoChoicesIsFatal ==
    [][/\ \A i \in 1..Len(http) :
             Is2xxWith(http[i], "no_choices") =>
                /\ i = Len(http) /\ pc # "send_request"
                /\ Len(sleeps) = i - 1
                /\ ~Unwrap(resp).ok
                /\ Unwrap(Unwrap(resp).err).kind = "no_choices"
                /\ Unwrap(Unwrap(resp).err).words = {"no", "choices", "in", "response"}
       /\ (/\ pc = "returned" /\ pc' # "returned"
           /\ Is2xxWith(http[Len(http)], "no_choices")) => FailsRun
    ]_vars

\* C16 witness: the first attempt was answered 200 with an empty choices
\* list, and the run has failed without a sleep or a prune
C16_Witness ==
    /\ pc = "done" /\ Len(http) = 1 /\ Is2xxWith(http[1], "no_choices")
    /\ sleeps = <<>> /\ prunes = 0
    /\ IsSome(result) /\ ~Unwrap(result).ok
    /\ Unwrap(Unwrap(result).err).kind = "no_choices"
    /\ events[Len(events)].type = "turn.failed"

\* C17: every way run can end after turn.started writes a corresponding
\* event first: a run that returns Err has turn.failed as its last event and
\* a run that returns Ok has turn.completed as its last event, also when
\* the tool-call arguments of a response cannot be parsed.
C17_EveryEndHasItsEvent ==
    (pc = "done" /\ IsSome(result) /\ Len(events) >= 2) =>
        /\ events[2].type = "turn.started"
        /\ (Unwrap(result).ok => events[Len(events)].type = "turn.completed")
        /\ (~Unwrap(result).ok => events[Len(events)].type = "turn.failed")

\* the causes run can end for
EndSubmit ==
    /\ submit_enabled /\ IsSome(resp) /\ Unwrap(resp).ok
    /\ RepliedCalls # <<>> /\ RepliedCalls[1].name = "submit"
    /\ RepliedCalls[1].arguments.wf /\ IsSome(RepliedCalls[1].arguments.answer)
    /\ IsOkResult(Unwrap(RepliedCalls[1].arguments.answer))

EndReply ==
    /\ ~submit_enabled /\ IsSome(resp) /\ Unwrap(resp).ok
    /\ RepliedCalls = <<>>
    /\ LET content == Unwrap(Unwrap(resp).message).content
       IN  IsOkResult(IF IsSome(content) THEN Unwrap(content) ELSE "")

EndMaxSteps ==
    /\ IsSome(max_steps) /\ steps >= Unwrap(max_steps)
    /\ LET text == "Terminated: max_steps (" \o ToString(Unwrap(max_steps)) \o ") reached."
       IN  IsOkResult(text) /\ EndsWithWarning(events, text)

EndTimeLimit ==
    /\ IsSome(time_limit) /\ elapsed >= Unwrap(time_limit)
    /\ IsOkResult("Terminated: time_limit reached.")
    /\ EndsWithWarning(events, "Terminated: time_limit reached.")

\* a Transport error run could not recover from (any error but a
\* context-length failure, which is returned; a context-length failure no
\* prune could shorten the conversation for, which ends the run with
\* 'Terminated: context length exceeded.'), or submit arguments that do not
\* parse
EndError ==
    \/ /\ IsOtherFailure(resp)
       /\ result = Some([ok |-> FALSE, text |-> "", err |-> Unwrap(resp).err])
    \/ /\ IsContextFailure(resp)
       /\ IsOkResult("Terminated: context length exceeded.")
       /\ EndsWithWarning(events, "Terminated: context length exceeded.")
    \/ /\ submit_enabled /\ IsSome(resp) /\ Unwrap(resp).ok
       /\ RepliedCalls # <<>> /\ RepliedCalls[1].name = "submit"
       /\ ~(RepliedCalls[1].arguments.wf /\ IsSome(RepliedCalls[1].arguments.answer))
       /\ IsSome(result) /\ ~Unwrap(result).ok
       /\ Unwrap(Unwrap(result).err).kind = "submit_arguments"

Ends == <<EndSubmit, EndReply, EndMaxSteps, EndTimeLimit, EndError>>

C19_FinalReplyWhenSubmitDisabled ==
    [][(/\ ~submit_enabled /\ pc = "returned" /\ pc' # "returned"
        /\ IsSome(resp) /\ Unwrap(resp).ok) =>
          LET reply == Unwrap(Unwrap(resp).message)
              calls == CallsOf(reply)
          IN  IF calls = <<>>
              THEN /\ pc' = "done"
                   /\ result' = Some([ok |-> TRUE, err |-> None,
                                      text |-> IF IsSome(reply.content)
                                               THEN Unwrap(reply.content) ELSE ""])
                   /\ events'[Len(events')].type = "turn.completed"
                   /\ http' = http /\ invocations' = invocations
              ELSE /\ pc' = "execute_tool" /\ result' = None
                   /\ invocations' = Append(invocations, calls[1])
    ]_vars

\* C19 witness: with submission disabled, a reply whose tool-call list is
\* empty and whose content is absent has ended the run with ""
C19_Witness ==
    /\ ~submit_enabled /\ pc = "done" /\ IsOkResult("")
    /\ IsSome(resp) /\ Unwrap(resp).ok
    /\ Unwrap(Unwrap(resp).message).tool_calls = Some(<<>>)
    /\ events[Len(events)].type = "turn.completed"

\* C20: with submission enabled, a reply without tool calls does not end
\* the run: the fixed continue message is appended as a User message right
\* after the assistant message and run is at the top of the next step; so
\* the only Ok results are a submit answer or a 'Terminated: ...' message.
C20_ContinueWhenSubmitEnabled ==
    [][submit_enabled =>
          /\ (/\ pc = "returned" /\ pc' # "returned"
              /\ IsSome(resp) /\ Unwrap(resp).ok
              /\ CallsOf(Unwrap(Unwrap(resp).message)) = <<>>) =>
                LET reply == Unwrap(Unwrap(resp).message)
                    n == Len(messages)
                IN  /\ pc' = "top" /\ result' = None
                    /\ Len(messages') = n + 2
                    /\ SubSeq(messages', 1, n) = messages
                    /\ RoleOf(messages'[n + 1]) = "assistant"
                    /\ messages'[n + 1].content = reply.content
                    /\ messages'[n + 2] =
                          Msg("user",
                              Some("Please proceed to the next step using your best judgement. If you believe you are finished, double check your work to continue to refine and improve your submission."),
                              None, None)
          /\ (IsSome(result') /\ Unwrap(result').ok) =>
                \/ Unwrap(result').text \in
                      {"Terminated: time_limit reached.",
                       "Terminated: context length exceeded."}
                      \cup {"Terminated: max_steps (" \o ToString(n) \o ") reached." :
                              n \in 0..MaxSteps}
                \/ /\ IsSome(resp') /\ Unwrap(resp').ok
                   /\ LET calls == CallsOf(Unwrap(Unwrap(resp').message))
                      IN  /\ calls # <<>> /\ calls[1].name = "submit"
                          /\ calls[1].arguments.answer = Some(Unwrap(result').text)
    ]_vars

\* C20 witness: with submission enabled, a reply without tool calls was
\* followed by the continue message and a second step, which ended the run
\* with a submit answer
C20_Witness ==
    /\ submit_enabled /\ pc = "done" /\ steps = 2 /\ IsOkResult("42")
    /\ Len(messages) = 5
    /\ RoleOf(messages[3]) = "assistant" /\ CallsOf(messages[3]) = <<>>
    /\ RoleOf(messages[4]) = "user"
    /\ RoleOf(messages[5]) = "assistant"

(***************************************************************************)
(* Claims about the event log of a run (checked under Spec).               *)
(***************************************************************************)
\* the number of events of this type in the log
CountType(type) == Cardinality({i \in 1..Len(events) : events[i].type = type})

\* the value the event carries under this key, as a set (empty when absent)
DataOf(e, key) == {p[2] : p \in {q \in e.data : q[1] = key}}

\* C21: in every run's event log the first event is thread.started (with
\* thread_id) and the second is turn.started (with prompt and
\* system_prompt); each occurs exactly once, and both are in the log before
\* the conversation is seeded and before the first Transport call.
C21_StartEventsFirst ==
    /\ (events # <<>> =>
          /\ Len(events) >= 2
          /\ events[1].type = "thread.started"
          /\ DataOf(events[1], "thread_id") = {"session"}
          /\ events[2].type = "turn.started"
          /\ DataOf(events[2], "prompt") = {"task"}
          /\ DataOf(events[2], "system_prompt") = {"system prompt"}
          /\ CountType("thread.started") = 1
          /\ CountType("turn.started") = 1)
    /\ ((messages # <<>> \/ http # <<>> \/ request # <<>> \/ steps > 0) =>
          /\ Len(events) >= 2
          /\ messages[1].content = Some("system prompt")
          /\ messages[2].content = Some("task"))

\* C21 witness: a run of two steps has ended, its log beginning with the
\* two start events
C21_Witness ==
    /\ pc = "done" /\ steps = 2 /\ Len(events) >= 5
    /\ events[1].type = "thread.started" /\ events[2].type = "turn.started"

\* C22: whenever run returns Ok (a final answer, a submit answer or a
\* 'Terminated: ...' message) the last event of the log is turn.completed,
\* turn.completed occurs exactly once in the log, and no turn.failed and no
\* error event occurs in it.
C22_OkEndsWithTurnCompleted ==
    (IsSome(result) /\ Unwrap(result).ok) =>
        /\ events[Len(events)].type = "turn.completed"
        /\ CountType("turn.completed") = 1
        /\ CountType("turn.failed") = 0
        /\ CountType("error") = 0

\* C22 witness: a run of two steps has returned a submit answer
C22_Witness ==
    /\ pc = "done" /\ steps = 2 /\ submit_enabled /\ IsOkResult("42")
    /\ events[Len(events)].type = "turn.completed"
    /\ Len(invocations) = 0

\* the step handles a successful completion (lines 168-253)
HandlesCompletion == pc = "returned" /\ pc' # pc /\ IsSome(resp) /\ Unwrap(resp).ok

\* the events the step appends to the log
Appended == SubSeq(events', Len(events) + 1, Len(events'))

\* C23: the usage carried by turn.completed is cumulative. The total starts
\* at zero; a step that handles a successful completion with a usage block
\* adds its prompt_tokens, cached_tokens (0 when absent) and
\* completion_tokens to input_tokens, cached_input_tokens and output_tokens,
\* also after pruning; every other step (a failed or retried attempt, a
\* prune, a completion without usage) leaves the total as it is; and a
\* turn.completed event carries the total of the moment it is written.
C23_UsageIsCumulative ==
    /\ (pc = "new" =>
          token_usage_total
             = [input_tokens |-> 0, cached_input_tokens |-> 0, output_tokens |-> 0])
    /\ [][/\ IF HandlesCompletion /\ IsSome(Unwrap(resp).usage)
             THEN LET usage == Unwrap(Unwrap(resp).usage)
                  IN  /\ token_usage_total'.input_tokens
                           = token_usage_total.input_tokens + usage.prompt_tokens
                      /\ token_usage_total'.cached_input_tokens
                           = token_usage_total.cached_input_tokens
                               + (IF usage.cached_tokens = <<>> THEN 0
                                  ELSE usage.cached_tokens[1])
                      /\ token_usage_total'.output_tokens
                           = token_usage_total.output_tokens + usage.completion_tokens
             ELSE token_usage_total' = token_usage_total
          /\ Len(events') >= Len(events)
          /\ \A i \in 1..Len(Appended) :
                Appended[i].type = "turn.completed"
                   => Appended[i].usage = <<token_usage_total'>>]_vars

\* C23 witness: a run whose two completions both carried usage, the second
\* obtained after a prune, has ended with the sum of both
C23_Witness ==
    /\ pc = "done" /\ steps = 2 /\ prunes > 0
    /\ token_usage_total
          = [input_tokens |-> 3, cached_input_tokens |-> 1, output_tokens |-> 2]
    /\ events[Len(events)].usage = <<token_usage_total>>

\* the positions of the item events in the log
ItemIdx == {i \in 1..Len(events) : events[i].type \in {"item.started", "item.completed"}}

\* events i and j are the start and the completion of one command execution
SameItem(i, j) ==
    /\ j = i + 1
    /\ events[i].type = "item.started" /\ events[i].item_type = "command_execution"
    /\ events[j].type = "item.completed" /\ events[j].item_type = "command_execution"

\* C24: every item event (agent message, command execution, file change,
\* warning) carries an item id; the ids of successive distinct items in the
\* log are strictly increasing, starting at 0 and leaving no number out, so
\* no two distinct items share an id; the start and the completion of one
\* command execution carry the same id.
C24_ItemIdsIncrease ==
    /\ \A i \in ItemIdx : IsSome(events[i].id)
    /\ \A i, j \in ItemIdx :
          i < j => IF SameItem(i, j)
                   THEN Unwrap(events[i].id) = Unwrap(events[j].id)
                   ELSE Unwrap(events[i].id) < Unwrap(events[j].id)
    /\ {Unwrap(events[i].id) : i \in ItemIdx} = 0..(next_item_id - 1)

\* C24 witness: a run has ended whose log holds a file change, warnings and a
\* started and completed command execution
C24_Witness ==
    /\ pc = "done" /\ next_item_id >= 5
    /\ \E i \in ItemIdx : events[i].item_type = "file_change"
    /\ \E i \in ItemIdx : events[i].item_type = "error"
    /\ \E i, j \in ItemIdx : SameItem(i, j)

(***************************************************************************)
(* Claims about the conversation and the requests built from it.          *)
(***************************************************************************)
\* C25: in every request body sent during a run (first send, retried send,
\* re-send after a prune) the first message is the System message and the
\* second is the initial User task message given to run.
C25_RequestStartsWithSystemAndTask ==
    (pc = "send_request" \/ http # <<>> \/ request # <<>>) =>
        /\ Len(request) >= 2
        /\ request[1] = SystemMessage
        /\ request[2] = TaskMessage

\* C25 witness: the request re-sent after a prune that dropped messages is
\* being retried
C25_Witness ==
    /\ pc = "send_request" /\ prunes = 1 /\ resends = 1 /\ attempt = 1
    /\ Len(request) < Len(pin)
    /\ \E i \in 3..Len(request) : RoleOf(request[i]) = "user"
    /\ request[2] = TaskMessage

\* the Tool message at position i stands behind an Assistant message with
\* only Tool messages between them, and names one of its calls
AnswersAdjacent(conv, i) ==
    /\ Answered(conv, i)
    /\ \A k \in (PrecedingAssistant(conv, i) + 1)..(i - 1) : RoleOf(conv[k]) = "tool"

\* C26: in every request body sent during a run, every Tool message carries
\* a tool_call_id that is one of the tool-call ids of the nearest preceding
\* Assistant message, and only Tool messages stand between that Assistant
\* message and it.
C26_RequestToolsAnswerCalls ==
    \A i \in 1..Len(request) :
        RoleOf(request[i]) = "tool" => AnswersAdjacent(request, i)

\* C26 witness: the request of a second step holds the three Tool messages
\* of a reply with three calls
C26_Witness ==
    /\ pc = "send_request" /\ steps = 2 /\ Len(request) = 6
    /\ RoleOf(request[3]) = "assistant"
    /\ \A i \in 4..6 : RoleOf(request[i]) = "tool"
    /\ request[6].tool_call_id # request[4].tool_call_id

\* a request re-sent after a prune that cut the Assistant message off its
\* Tool messages holds none of them
C26_WitnessPruned ==
    /\ pc = "send_request" /\ resends = 1
    /\ \E i \in 1..Len(pin) : RoleOf(pin[i]) = "tool"
    /\ \A i \in 1..Len(request) : RoleOf(request[i]) # "tool"

\* conv is a prefix of conv2
IsPrefix(conv, conv2) ==
    /\ Len(conv) <= Len(conv2)
    /\ \A i \in 1..Len(conv) : conv2[i] = conv[i]

\* C27: messages are append-only except during pruning: every step of a run
\* other than the handling of a context-length failure of send_request
\* leaves the conversation it found as a prefix of the conversation it
\* leaves, so no existing message is changed, removed or reordered.
C27_AppendOnlyExceptPruning ==
    [][(pc = "returned" /\ IsContextFailure(resp)) \/ IsPrefix(messages, messages')]_vars

\* C27 witness: a run of two steps that never pruned has ended with the
\* messages of both steps in the conversation
C27_Witness ==
    /\ pc = "done" /\ steps = 2 /\ prunes = 0 /\ Len(messages) >= 7
    /\ messages[1] = SystemMessage /\ messages[2] = TaskMessage
    /\ RoleOf(messages[Len(messages)]) = "assistant"

(***************************************************************************)
(* Claims about the Logger (checked under SpecLog).                        *)
(***************************************************************************)
\* the sinks that are configured
Sinks == {s \in {file_writer, stdout_writer, buffer} : IsSome(s)}

\* line e of a sink is what log_event was given in call c, with the two
\* keys added where the event did not have them
Enriches(e, c) ==
    /\ DOMAIN e = DOMAIN c.event \cup {"timestamp", "timestamp_ms"}
    /\ \A k \in DOMAIN c.event : e[k] = c.event[k]
    /\ "timestamp_ms" \notin DOMAIN c.event => e["timestamp_ms"] = c.now
    /\ "timestamp" \notin DOMAIN c.event => e["timestamp"] = Rfc3339(c.now)

\* C28: every event written to a sink is a JSON object that carries type,
\* timestamp and timestamp_ms; log_event adds timestamp and timestamp_ms
\* only when the key is not already present and changes no other field of
\* the event it was given.
C28_EventsCarryTimestamps ==
    \A s \in Sinks : \A i \in 1..Len(Unwrap(s)) :
        /\ {"type", "timestamp", "timestamp_ms"} \subseteq DOMAIN Unwrap(s)[i]
        /\ Enriches(Unwrap(s)[i], logged[i])

\* C28 witness: the file holds an event that was given without the two
\* keys, one given with timestamp only and one given with both
C28_Witness ==
    /\ IsSome(file_writer) /\ Len(Unwrap(file_writer)) = 3
    /\ DOMAIN logged[1].event \cap {"timestamp", "timestamp_ms"} = {}
    /\ DOMAIN logged[2].event \cap {"timestamp", "timestamp_ms"} = {"timestamp"}
    /\ {"timestamp", "timestamp_ms"} \subseteq DOMAIN logged[3].event
    /\ Unwrap(file_writer)[1]["timestamp_ms"] = 1
    /\ Unwrap(file_writer)[2]["timestamp"] = "given"

\* no call of log_event has failed
AllSucceeded ==
    ~(IsSome(result) /\ ~Unwrap(result).ok /\ Unwrap(Unwrap(result).err).kind = "log_event")

\* the sink holds one line per call of log_event, in the order of the calls
HoldsEveryCall(sink) ==
    /\ Len(Unwrap(sink)) = Len(logged)
    /\ \A i \in 1..Len(logged) : Enriches(Unwrap(sink)[i], logged[i])

\* what the sink holds is kept by the step
KeptBySink(sink, sink2) ==
    IsSome(sink) => (IsSome(sink2) /\ IsPrefix(Unwrap(sink), Unwrap(sink2)))

\* C29: each event is serialized to every configured sink: as long as every
\* call of log_event has succeeded, the file sink, the stdout stream and the
\* buffer (those that are configured) hold the same events, one per call,
\* in emission order, and what the stream was given is what stdout shows;
\* and no step changes or removes an event a sink holds.
C29_SinksHoldSameEvents ==
    /\ [](AllSucceeded =>
            /\ \A s \in Sinks : HoldsEveryCall(s)
            /\ (IsSome(file_writer) /\ IsSome(buffer)) => file_writer = buffer
            /\ (IsSome(file_writer) /\ IsSome(stdout_writer)) => file_writer = stdout_writer
            /\ (IsSome(buffer) /\ IsSome(stdout_writer)) => buffer = stdout_writer
            /\ IsSome(stdout_writer) => stdout = Unwrap(stdout_writer))
    /\ [][/\ KeptBySink(file_writer, file_writer')
          /\ KeptBySink(stdout_writer, stdout_writer')
          /\ KeptBySink(buffer, buffer')]_vars

\* C29 witness: the file and the buffer hold the same three different events
C29_Witness ==
    /\ json /\ IsSome(buffer) /\ Len(Unwrap(buffer)) = 3 /\ file_writer = buffer
    /\ Cardinality(Range(Unwrap(buffer))) = 3
    /\ AllSucceeded /\ pc = "exit"

\* the file and the stdout stream hold the same three events
C29_WitnessStream ==
    /\ stream_json /\ IsSome(stdout_writer) /\ Len(Unwrap(stdout_writer)) = 3
    /\ file_writer = stdout_writer /\ stdout = Unwrap(stdout_writer)
    /\ AllSucceeded /\ pc = "exit"

\* C30: in buffered mode (--json) nothing is written to stdout while the run
\* is in progress, and once run_prompt has returned, whether the run
\* succeeded or failed, stdout holds every logged event exactly once, in
\* emission order, and nothing else.
C30_BufferFlushedOnceAtEnd ==
    json =>
        /\ pc \in {"run_prompt", "load_task", "run", "returned"} => stdout = <<>>
        /\ pc \in {"run_prompt_returned", "exit"} =>
              /\ Len(stdout) = Len(logged)
              /\ \A i \in 1..Len(logged) : Enriches(stdout[i], logged[i])

\* C30 witness: a buffered run that logged three events has failed and the
\* process is over
C30_Witness ==
    /\ json /\ pc = "exit" /\ ~Unwrap(result).ok
    /\ Len(logged) = 3 /\ stdout = Unwrap(buffer)

\* a buffered run that logged three events has succeeded
C30_WitnessOk ==
    /\ json /\ pc = "exit" /\ Unwrap(result).ok
    /\ Len(logged) = 3 /\ stdout = Unwrap(buffer)

(***************************************************************************)
(* Claims about the order of the work of a run.                            *)
(***************************************************************************)
\* the Assistant message at position i is followed by one Tool message per
\* tool call, in the order of the calls, and by no further Tool message
FullyAnswered(conv, i) ==
    LET k == Len(CallsOf(conv[i]))
    IN  /\ i + k <= Len(conv)
        /\ \A j \in 1..k :
              /\ RoleOf(conv[i + j]) = "tool"
              /\ conv[i + j].tool_call_id = Some(CallsOf(conv[i])[j].id)
        /\ i + k < Len(conv) => RoleOf(conv[i + k + 1]) # "tool"

\* C31: steps run strictly sequentially. A tool is being dispatched only
\* while run waits in execute_tool, so never while a Transport call is in
\* flight, and at most one tool is dispatched in a step; the dispatch starts
\* only after the Transport call of its step has returned a completion, for
\* the first call of that completion; and a Transport call is in flight only
\* when every tool call of the latest Assistant message has its Tool
\* message in the conversation the request was built from.
C31_StepsAreSequential ==
    [](/\ IsSome(dispatched) <=> pc = "execute_tool"
       /\ Len(invocations) <= 1
       /\ pc = "execute_tool" =>
             /\ IsSome(resp) /\ Unwrap(resp).ok /\ http # <<>>
             /\ Unwrap(dispatched).call = RepliedCalls[1]
             /\ invocations = <<RepliedCalls[1]>>
       /\ pc = "send_request" =>
             /\ request = messages
             /\ resp = None
             /\ LastAssistant(messages) > 0 =>
                   FullyAnswered(messages, LastAssistant(messages)))

\* C31 witness: the second Transport call of a run is in flight after a
\* step that answered two tool calls
C31_Witness ==
    /\ pc = "send_request" /\ steps = 2 /\ attempt = 1 /\ Len(messages) = 5
    /\ Len(CallsOf(messages[3])) = 2
    /\ FullyAnswered(messages, 3)

(***************************************************************************)
(* More claims about prune_messages (checked under SpecPrune).             *)
(***************************************************************************)
\* the non-system messages after the User anchor of conv
RestOf(conv) ==
    LET ns == NonSystemPart(conv)
    IN  SubSeq(ns, TaskIdx(ns) + 1, Len(ns))

\* the 0-based positions of rest, from floor(len(rest)/3) on, that hold a
\* User message
Boundaries(rest) ==
    {i \in (Len(rest) \div 3)..(Len(rest) - 1) : RoleOf(rest[i + 1]) = "user"}

\* the cut the claim describes
ClaimedCut(rest) ==
    IF Boundaries(rest) # {}
    THEN CHOOSE i \in Boundaries(rest) : \A j \in Boundaries(rest) : i <= j
    ELSE Len(rest) \div 3

\* C32: when the conversation has a User anchor and rest is the sequence of
\* non-system messages after it, prune_messages cuts at the smallest index
\* i >= floor(len(rest)/3) such that rest[i] is a User message, or at
\* floor(len(rest)/3) when there is none, and its output is the system
\* messages followed by the tool-pairing filter applied to the anchor
\* followed by rest[cut_idx..].
C32_CutAtUserBoundary ==
    (pc = "prune_messages" /\ prunes >= 1 /\ HasUser(pin)) =>
        LET ns == NonSystemPart(pin)
            rest == RestOf(pin)
            cut == ClaimedCut(rest)
        IN  /\ CutIdx(rest) = cut
            /\ messages = SystemPart(pin)
                            \o Revalidate(<<ns[TaskIdx(ns)]>> \o SubSeq(rest, cut + 1, Len(rest)),
                                          1, {}, <<>>)

\* C32 witness: a conversation was pruned whose first User message at or
\* after floor(len(rest)/3) stands two places behind that index
C32_Witness ==
    /\ pc = "prune_messages" /\ prunes = 1 /\ HasUser(pin)
    /\ Len(RestOf(pin)) = 4
    /\ ClaimedCut(RestOf(pin)) = 3
    /\ Len(messages) = Len(pin) - 3

(***************************************************************************)
(* Claims about the logging of tool results.                               *)
(***************************************************************************)
\* the status the claim gives a tool result
ClaimedStatus(name, content, success) ==
    LET embedded == parse_command_output(content)
        completed ==
            CASE name = "apply_patch" ->
                    IF IsSome(embedded) THEN Unwrap(embedded) = 0
                    ELSE success /\ ~output_is_error_json(content)
              [] name = "shell_command" ->
                    IF IsSome(embedded) THEN Unwrap(embedded) = 0 ELSE success
              [] OTHER -> success /\ ~output_is_error_json(content)
    IN  IF completed THEN "completed" ELSE "failed"

C33_WitnessPatch ==
    /\ pc = "top" /\ steps = 1 /\ Len(messages) >= 4 /\ Len(events) >= 3
    /\ Len(CallsOf(messages[3])) >= 1
    /\ CallsOf(messages[3])[1].name = "apply_patch"
    /\ messages[4].content = Some(tool_error("tool failed"))
    /\ events[3].item_type = "file_change" /\ events[3].status = "failed"

(***************************************************************************)
(* More claims about send_request.                                         *)
(***************************************************************************)
\* the seconds of the Retry-After values of this model that parse
SecondsOf(h) ==
    CASE Unwrap(h) = <<"2">> -> 2
      [] Unwrap(h) = <<" ", "1", " ">> -> 1
      [] Unwrap(h) = <<"+", "3">> -> 3
      [] Unwrap(h) = <<"4">> -> 4

\* 250 * 2^k for the attempts that can be retried
Doubled(k) == IF k = 0 THEN 250 ELSE IF k = 1 THEN 500 ELSE 1000

\* the delay, without the jitter, the claim gives the sleep after the
\* failed attempt k (counted from 0) with answer o
ClaimedDelay(k, o) ==
    IF IsHttpFailure(o) /\ ParsesAsSeconds(o.retry_after)
    THEN SecondsOf(o.retry_after) * 1000
    ELSE Min(Doubled(k), 3000)

\* C34: before the retry that follows failed attempt k (k = 0 or 1)
\* send_request sleeps min(250 * 2^k, 3000) ms plus a jitter of 0..49 ms
\* when no Retry-After was parsed, and Retry-After * 1000 ms plus a jitter
\* of 0..49 ms, uncapped, when one was; no sleep follows the last attempt
\* or a failure that is not retried.
C34_BackoffDelays ==
    /\ Len(sleeps) <= 2
    /\ Len(sleeps) = (IF pc = "send_request" THEN Len(http) ELSE Len(http) - 1)
    /\ \A i \in 1..Len(sleeps) :
          /\ Retried(i)
          /\ sleeps[i] - ClaimedDelay(i - 1, http[i]) \in 0..49

\* C34 witness: a 429 with Retry-After 4 and then a 503 were retried
C34_Witness ==
    /\ Len(sleeps) = 2 /\ Len(http) = 3
    /\ http[1].status = 429 /\ http[1].retry_after = Some(<<"4">>)
    /\ http[2].status = 503 /\ http[2].retry_after = None
    /\ sleeps = <<4049, 500>>

\* C35: error_chain_has_retryable_io_dyn returns true if and only if some
\* error in the source chain of its argument (the argument itself included)
\* is an I/O error of kind UnexpectedEof, ConnectionReset, ConnectionAborted
\* or BrokenPipe; a chain whose only I/O errors have other kinds is not
\* retryable.
C35_RetryableIoChain ==
    pc = "chain_walked" =>
        (retryable <=>
            \E i \in 1..Len(err_chain) :
                err_chain[i] \in {"UnexpectedEof", "ConnectionReset", "ConnectionAborted",
                                  "BrokenPipe"})

\* C35 witness: an UnexpectedEof below a wrapper and another I/O error is
\* found
C35_Witness ==
    /\ pc = "chain_walked" /\ retryable
    /\ err_chain = <<"NotIo", "Other", "UnexpectedEof">>

\* a chain whose I/O errors are of other kinds is not retryable
C35_WitnessOther ==
    /\ pc = "chain_walked" /\ ~retryable
    /\ err_chain = <<"NotIo", "TimedOut", "Other">>

(***************************************************************************)
(* More claims about the requests of a run.                                *)
(***************************************************************************)
\* the tool calls of msg have ids that differ from one another
DistinctIds(msg) ==
    \A j, k \in 1..Len(CallsOf(msg)) : CallsOf(msg)[j].id = CallsOf(msg)[k].id => j = k

RECURSIVE IsSubsequence(_, _)
IsSubsequence(a, b) ==
    IF a = <<>> THEN TRUE
    ELSE IF b = <<>> THEN FALSE
    ELSE IF Head(a) = Head(b) THEN IsSubsequence(Tail(a), Tail(b))
    ELSE IsSubsequence(a, Tail(b))

\* C37: prune_messages only deletes: for any conversation the non-system
\* part of its output is a subsequence of the non-system part of its input
\* (the same messages, unmodified, in the same relative order), so no
\* message is fabricated, duplicated, altered or reordered.
C37_PruneOnlyDeletes ==
    (pc = "prune_messages" /\ prunes >= 1) =>
        IsSubsequence(NonSystemPart(messages), NonSystemPart(pin))

\* C37 witness: a prune cut messages off behind the anchor and dropped a
\* Tool message further on, out of a conversation with a system message
\* among the others
C37_Witness ==
    /\ pc = "prune_messages" /\ prunes = 1
    /\ Len(pin) = 5 /\ RoleOf(pin[1]) = "user" /\ RoleOf(pin[3]) = "system"
    /\ RoleOf(pin[5]) = "tool"
    /\ Len(NonSystemPart(pin)) = 4 /\ Len(NonSystemPart(messages)) = 2
    /\ NonSystemPart(messages) = <<pin[1], pin[4]>>

\* C38: send_request leaves the agent state unchanged: while it runs, over
\* all its attempts, the conversation, the token-usage totals, the item-id
\* counter and the event log stay as they were and the request body stays
\* the same, so every attempt carries the identical body and an attempt that
\* is retried writes no event.
C38_SendRequestChangesNothing ==
    [][pc = "send_request" =>
          /\ messages' = messages
          /\ token_usage_total' = token_usage_total
          /\ next_item_id' = next_item_id
          /\ events' = events
          /\ request' = request]_vars

\* C38 witness: send_request has returned after three attempts and the
\* agent is as it was when the call began
C38_Witness ==
    /\ pc = "returned" /\ Len(http) = 3 /\ Len(sleeps) = 2
    /\ events = StartEvents /\ next_item_id = 0
    /\ messages = <<SystemMessage, TaskMessage>> /\ request = messages
    /\ token_usage_total.input_tokens = 0

(***************************************************************************)
(* More claims about the event log of a run.                               *)
(***************************************************************************)
\* the number of events of the current step with this type and item type
StepCount(type, item_type) ==
    Cardinality({i \in 1..Len(StepEvents) :
                    StepEvents[i].type = type /\ StepEvents[i].item_type = item_type})

\* C39: every item.started event is the start of a command execution,
\* with status in_progress, and is immediately followed by the
\* item.completed event of that command execution, with the same id and
\* command, unless the tool is still running; every completed command
\* execution stands directly behind its start. A step that dispatched a
\* tool other than apply_patch holds exactly one such pair and no file
\* change; a step that dispatched apply_patch holds exactly one completed
\* file change and no start; agent messages and warnings are completed
\* items only. The ids in the log are exactly those handed out, 0 to
\* next_item_id - 1.
C39_StartedThenCompleted ==
    [](/\ \A i \in 1..Len(events) :
             events[i].type = "item.started" =>
                 /\ events[i].item_type = "command_execution"
                 /\ events[i].status = "in_progress"
                 /\ IF i = Len(events) THEN pc = "execute_tool"
                    ELSE /\ events[i + 1].type = "item.completed"
                         /\ events[i + 1].item_type = "command_execution"
                         /\ events[i + 1].id = events[i].id
                         /\ events[i + 1].text = events[i].text
       /\ \A i \in 1..Len(events) :
             (events[i].type = "item.completed" /\ events[i].item_type = "command_execution") =>
                 /\ i > 1
                 /\ events[i - 1].type = "item.started"
                 /\ events[i - 1].id = events[i].id
       /\ (pc \in {"top", "done"} /\ invocations # <<>>) =>
             LET patch == invocations[1].name = "apply_patch"
             IN  /\ StepCount("item.started", "command_execution") = (IF patch THEN 0 ELSE 1)
                 /\ StepCount("item.completed", "command_execution") = (IF patch THEN 0 ELSE 1)
                 /\ StepCount("item.completed", "file_change") = (IF patch THEN 1 ELSE 0)
       /\ {Unwrap(events[i].id) : i \in {j \in 1..Len(events) : IsSome(events[j].id)}}
             = 0..(next_item_id - 1))

\* C39 witness: a step with an agent message dispatched a command that
\* failed and refused a second call
C39_Witness ==
    /\ pc = "top" /\ steps = 1 /\ Len(events) = 6
    /\ events[3].item_type = "agent_message" /\ events[3].type = "item.completed"
    /\ events[4].type = "item.started" /\ events[5].type = "item.completed"
    /\ events[5].id = events[4].id /\ events[5].status = "failed"
    /\ events[6].item_type = "error" /\ events[6].id = Some(2)

(***************************************************************************)
(* FairSpec: Agent::run when every Transport call and every tool dispatch  *)
(* returns, and the thread of run keeps being scheduled. The clock is left *)
(* free: it may advance or stand still.                                    *)
(***************************************************************************)
\* the steps of run itself: every step of Next but the clock's
Progress ==
    \/ RunStart
    \/ BudgetExhausted
    \/ TimeExhausted
    \/ StepBegin
    \/ HttpAttempt(RunAnswers, RunJitters)
    \/ SendFailed
    \/ PruneAndResend
    \/ PruneExhausted
    \/ ReplySubmit
    \/ ReplyDispatch
    \/ ToolReturn
    \/ ReplyContinue
    \/ ReplyFinal

FairSpec == Spec /\ WF_vars(Progress)

\* C40: with max_steps set, run eventually returns, whatever the model and
\* the tools answer; the loop starts at most max_steps steps, a send makes
\* at most MAX_RETRIES + 1 = 3 attempts, a request is sent again only after a
\* prune that made the conversation strictly shorter, and a step
\* dispatches at most one tool.
C40_RunTerminates ==
    /\ IsSome(max_steps) => <>(pc = "done")
    /\ [](/\ IsSome(max_steps) => steps <= Unwrap(max_steps)
          /\ Len(http) <= MAX_RETRIES + 1
          /\ Len(invocations) <= 1
          /\ pc \in {"send_request", "returned"} =>
                resends <= (IF recovering THEN first_len - Len(messages) ELSE 0))

\* C40 witness: run returned on the step budget after two steps, the
\* second of which sent its request again after a prune
C40_Witness ==
    /\ pc = "done" /\ max_steps = Some(2) /\ steps = 2
    /\ result = Some(RunOk(MaxStepsText(2)))
    /\ resends >= 1

====
